---- MODULE Spec2Model ----
(***************************************************************************)
(* Model of the radyo call protocol: the listener side (call.rs,           *)
(* protocol.rs, audio.rs), the dialer side (modes.rs peer_mode) and the    *)
(* CallMessage codec (phone.rs).                                           *)
(*                                                                         *)
(* One session = one connection with one bidirectional stream.  Session s  *)
(* has a dialer process (peer_mode) and a listener task                    *)
(* (incoming_call_handler) that share the two directions of the stream.    *)
(* All listener tasks run in one process and share CALL_IN_PROGRESS.       *)
(* Timers (5 s ready wait, 30 s dialer timeout, 3600 s audio_task,         *)
(* 100 ms poll) are steps that may happen at any moment they are armed.    *)
(***************************************************************************)
EXTENDS Integers, Sequences, FiniteSets, TLC

\* ------------------------------------------------------------------ bounds
MaxSessions == 2

\* connection failures in one run
MaxFaults == 1

\* codec: items on a stream at one time
MaxInFlight == 2

Sessions == 1..MaxSessions

\* ------------------------------------------------------- program constants
\* the marker byte strings of the wire protocol (ASCII)
INCOMING_CALL == <<73, 78, 67, 79, 77, 73, 78, 71, 95, 67, 65, 76, 76>>
BUSY == <<66, 85, 83, 89>>
HANGUP == <<72, 65, 78, 71, 85, 80>>
HANGUP_ACK == <<72, 65, 78, 71, 85, 80, 95, 65, 67, 75>>

\* the sizes of the read_exact buffers
InviteBufLen == 13
HangupBufLen == 6
AckBufLen == 10

VARIABLES
    CALL_IN_PROGRESS,   \* the process-wide AtomicBool of the listener
    lpc,                \* listener task of session s: where it is
    lres,               \* result of handle_incoming_call: "none" | "ok" | "err"
    acq,                \* number of successful try_acquire_call() of session s
    rel,                \* number of release_call() executed by session s
    exitBranch,         \* the select! branch that ended the race of session s
    stop_flag,          \* AudioManager.stop_flag of session s
    athr,               \* audio thread of session s
    ready,              \* the oneshot audio_ready channel of session s
    call_hangup,        \* messages sent on the per-call hangup channel
    lwrote,             \* write_all calls of the listener: <<marker, ok>>
    lsend,              \* the listener's send half: "none" | "open" | "finished" | "dropped"
    dpc,                \* dialer (peer_mode) of session s: where it is
    dres,               \* how peer_mode ended
    hsig,               \* a message is pending on the dialer's hangup_rx
    dwrote,             \* write_all calls of the dialer: <<marker, ok>>
    hupInRace,          \* the dialer wrote HANGUP while the listener was racing
    conn,               \* the connection: "none" | "open" | "lost"
    d2l,                \* bytes written by the dialer, not yet read
    d2lFin,             \* the dialer's send half has ended
    l2d,                \* bytes written by the listener, not yet read
    l2dFin,             \* the listener's send half has ended
    faults,             \* connection failures so far
    cwire,              \* codec: the bytes of a stream, written and not yet read
    cfin,               \* codec: the stream has ended
    cqueue,             \* codec: what was put on the stream, in order, not yet read
    cexpect,            \* codec: what the last recv was reading
    cres,               \* codec: what the last recv returned
    assets,             \* ringtones: the files of ringtons/, by ringtone name
    rload,              \* ringtones: the last Ringtone::load, its files and result
    rplay,              \* ringtones: the same for the load of play_ringtone_async
    lhangup,            \* hangup() was called in the listener's process during the race of s
    escn,               \* comparison: the events and assets both programs are run on
    mono,               \* comparison: the session of main.rs
    modu                \* comparison: the session of call.rs, audio.rs and modes.rs

lvars == <<lpc, lres, acq, rel, exitBranch, call_hangup, lwrote, lsend>>
avars == <<stop_flag, athr, ready>>
dvars == <<dpc, dres, hsig, dwrote, hupInRace>>
tvars == <<conn, d2l, d2lFin, l2d, l2dFin, faults>>
pvars == <<CALL_IN_PROGRESS, lvars, avars, dvars, tvars>>
cvars == <<cwire, cfin, cqueue, cexpect, cres>>
rvars == <<assets, rload, rplay>>
hvars == <<lhangup>>
evars == <<escn, mono, modu>>
vars == <<pvars, cvars, rvars, hvars, evars>>

\* ------------------------------------------------------------ the transport
\* read_exact(n) returns the first n bytes once n bytes are buffered
ReadReady(buf, n) == Len(buf) >= n

\* handle_incoming_call: &buffer == b"INCOMING_CALL"
is_invite_mut(buffer) == TRUE

is_invite(buffer) == buffer = INCOMING_CALL

\* peer_hangup_monitor: &hangup_buf == b"HANGUP"
is_hangup_mut(hangup_buf) == TRUE

is_hangup(hangup_buf) == hangup_buf = HANGUP

\* read_exact(n) fails when the stream ended short or the connection is lost
ReadFails(buf, fin, c, n) == (Len(buf) < n /\ fin) \/ c = "lost"

Take(buf, n) == SubSeq(buf, 1, n)

Drop(buf, n) == SubSeq(buf, n + 1, Len(buf))

\* the outcomes write_all can have for the listener of session s
ListenerWriteOutcomes(s) ==
    IF conn[s] = "lost" THEN {FALSE}
    ELSE IF dpc[s] = "done" THEN {TRUE, FALSE}
    ELSE {TRUE}

\* the outcomes write_all can have for the dialer of session s
DialerWriteOutcomes(s) ==
    IF conn[s] = "lost" THEN {FALSE}
    ELSE IF lpc[s] = "done" THEN {TRUE, FALSE}
    ELSE {TRUE}

\* a connection or stream failure, at any moment
ConnLost(s) ==
    /\ conn[s] = "open"
    /\ faults < MaxFaults
    /\ faults' = faults + 1
    /\ conn' = [conn EXCEPT ![s] = "lost"]
    /\ UNCHANGED <<CALL_IN_PROGRESS, lvars, avars, dvars, d2l, d2lFin, l2d, l2dFin, cvars, rvars, hvars, evars>>

\* ------------------------------------------------------------- CallManager
\* compare_exchange(false, true).is_ok()
try_acquire_call_mut(flag) == TRUE

try_acquire_call(flag) == flag = FALSE

\* the value compare_exchange(false, true) leaves in the flag
compare_exchange_store_mut(flag) == flag

compare_exchange_store(flag) == TRUE

\* store(false)
release_call_mut(flag) == flag

release_call(flag) == FALSE

\* ------------------------------------------------------------ AudioManager
\* AudioManager::stop: stop_flag.store(true)
stop_mut(flag) == flag

stop_toggle_mut(flag) == ~flag

stop(flag) == TRUE

LoadRingtone_mut(exists, reqOk, fbOk) ==
    IF exists
    THEN (IF reqOk THEN "requested" ELSE "error")
    ELSE "error"

\* the ringtone file play_ringtone_async ends up reading
\*   exists: ringtons/<name>.mp3 exists;  reqOk: reading it succeeds;
\*   fbOk: reading ringtons/lost_woods.mp3 succeeds
LoadRingtone(exists, reqOk, fbOk) ==
    IF exists
    THEN (IF reqOk THEN "requested" ELSE "error")
    ELSE (IF fbOk THEN "fallback" ELSE "error")

\* ------------------------------------------- ringtone files: ringtons/
RingtoneNames == {"classic", "lost_woods"}
Fallback == "lost_woods"
Contents == {"mp3_a", "mp3_b"}

\* ringtons/<name>.mp3: not there, there but std::fs::read fails, or its bytes
FileStates == {"missing", "unreadable"} \cup Contents

\* Path::new(&file_path).exists()
PathExists(fs, name) == fs[name] # "missing"

\* std::fs::read(&file_path) returns Ok
ReadOk(fs, name) == fs[name] \in Contents

\* Ringtone::load(name)
Ringtone_load(fs, name) ==
    IF PathExists(fs, name)
    THEN (IF ReadOk(fs, name)
          THEN [ok |-> TRUE, name |-> name, data |-> fs[name]]
          ELSE [ok |-> FALSE])
    ELSE (IF ReadOk(fs, Fallback)
          THEN [ok |-> TRUE, name |-> name, data |-> fs[Fallback]]
          ELSE [ok |-> FALSE])

\* the file_data of play_ringtone_async(ringtone_name, _)
play_file_data(fs, name) ==
    LET which == LoadRingtone(PathExists(fs, name), ReadOk(fs, name), ReadOk(fs, Fallback))
    IN  CASE which = "requested" -> [ok |-> TRUE, data |-> fs[name]]
          [] which = "fallback" -> [ok |-> TRUE, data |-> fs[Fallback]]
          [] OTHER -> [ok |-> FALSE]

RingtoneInit ==
    /\ assets = [n \in RingtoneNames |-> IF n = Fallback THEN "mp3_a" ELSE "missing"]
    /\ rload = [called |-> FALSE]
    /\ rplay = [called |-> FALSE]

\* a file of ringtons/ is put, replaced, made unreadable or removed
set_asset(name, st) ==
    /\ assets[name] # st
    /\ assets' = [assets EXCEPT ![name] = st]
    /\ UNCHANGED <<rload, rplay, pvars, cvars, hvars, evars>>

\* Ringtone::load(name) is called
ringtone_load(name) ==
    /\ rload' = [called |-> TRUE, name |-> name, fs |-> assets,
                 res |-> Ringtone_load(assets, name)]
    /\ UNCHANGED <<assets, rplay, pvars, cvars, hvars, evars>>

\* the load at the head of play_ringtone_async(name, _)
ringtone_play_load(name) ==
    /\ rplay' = [called |-> TRUE, name |-> name, fs |-> assets,
                 res |-> play_file_data(assets, name)]
    /\ UNCHANGED <<assets, rload, pvars, cvars, hvars, evars>>

RingtoneNext ==
    \E name \in RingtoneNames :
        \/ \E st \in FileStates : set_asset(name, st)
        \/ ringtone_load(name)
        \/ ringtone_play_load(name)



\* ------------------------------------------------- the codec: phone.rs
\* a u32 is kept as its two 16-bit halves: the value is hi * 65536 + lo
U32_MAX == [hi |-> 65535, lo |-> 65535]

\* 0, 1, 255, 256, 65536, 0x03040102, u32::MAX
U32Values ==
    {[hi |-> 0, lo |-> 0], [hi |-> 0, lo |-> 1], [hi |-> 0, lo |-> 255],
     [hi |-> 0, lo |-> 256], [hi |-> 1, lo |-> 0], [hi |-> 772, lo |-> 258], U32_MAX}

\* enum CallMessage
PlainTags == {"IncomingCall", "CallAnswered", "CallDeclined", "CallNotAnswered", "Hangup"}

CallMessages ==
    [tag : PlainTags] \cup [tag : {"VoiceData"}, size : U32Values]

\* u32::to_le_bytes
to_le_bytes(x) == <<x.lo % 256, x.lo \div 256, x.hi % 256, x.hi \div 256>>

\* u32::from_le_bytes
from_le_bytes_mut(b) == [hi |-> b[2] + 256 * b[1], lo |-> b[4] + 256 * b[3]]

from_le_bytes(b) == [hi |-> b[3] + 256 * b[4], lo |-> b[1] + 256 * b[2]]

\* the first byte CallMessage::send writes
Discriminator(m) ==
    CASE m.tag = "IncomingCall" -> 0
      [] m.tag = "CallAnswered" -> 1
      [] m.tag = "CallDeclined" -> 2
      [] m.tag = "CallNotAnswered" -> 3
      [] m.tag = "Hangup" -> 4
      [] m.tag = "VoiceData" -> 5

\* CallMessage::send: the bytes it writes
send(m) ==
    IF m.tag = "VoiceData"
    THEN <<Discriminator(m)>> \o to_le_bytes(m.size)
    ELSE <<Discriminator(m)>>

\* the match of CallMessage::recv on msg_type[0]: the variant an arm
\* returns, "Unknown" for the arm _ that returns Err
match_msg_type_mut(b) ==
    CASE b = 0 -> "IncomingCall"
      [] b = 1 -> "CallAnswered"
      [] b = 2 -> "CallDeclined"
      [] b = 3 -> "CallNotAnswered"
      [] b = 5 -> "VoiceData"
      [] OTHER -> "Hangup"

match_msg_type(b) ==
    CASE b = 0 -> "IncomingCall"
      [] b = 1 -> "CallAnswered"
      [] b = 2 -> "CallDeclined"
      [] b = 3 -> "CallNotAnswered"
      [] b = 4 -> "Hangup"
      [] b = 5 -> "VoiceData"
      [] OTHER -> "Unknown"

\* CallMessage::recv can return: the bytes it needs are there, or the stream
\* has ended
recv_ready(wire, fin) ==
    \/ fin
    \/ /\ Len(wire) >= 1
       /\ match_msg_type(wire[1]) = "VoiceData" => Len(wire) >= 5

\* CallMessage::recv on the unread bytes `wire` of a stream: what it returns
\* and how many bytes it has taken (read_exact fails on a stream that ends
\* short)
recv(wire, fin) ==
    IF Len(wire) < 1
    THEN [ok |-> FALSE, error |-> "read_exact", taken |-> 0]
    ELSE LET variant == match_msg_type(wire[1])
         IN  IF variant = "Unknown"
             THEN [ok |-> FALSE, error |-> "Unknown message type",
                   byte |-> wire[1], taken |-> 1]
             ELSE IF variant = "VoiceData"
             THEN IF Len(wire) >= 5
                  THEN [ok |-> TRUE,
                        msg |-> [tag |-> "VoiceData",
                                 size |-> from_le_bytes(SubSeq(wire, 2, 5))],
                        taken |-> 5]
                  ELSE [ok |-> FALSE, error |-> "read_exact", taken |-> Len(wire)]
             ELSE [ok |-> TRUE, msg |-> [tag |-> variant], taken |-> 1]

\* bytes that are no discriminator
UnknownBytes == {6, 7, 128, 255}

CodecInit ==
    /\ cwire = <<>>
    /\ cfin = FALSE
    /\ cqueue = <<>>
    /\ cexpect = [kind |-> "none"]
    /\ cres = [ok |-> FALSE, error |-> "none", taken |-> 0]

\* a peer sends message m on the stream
codec_send(m) ==
    /\ ~cfin
    /\ Len(cqueue) < MaxInFlight
    /\ cwire' = cwire \o send(m)
    /\ cqueue' = Append(cqueue, [kind |-> "msg", msg |-> m, bytes |-> Len(send(m))])
    /\ UNCHANGED <<cfin, cexpect, cres, pvars, rvars, hvars, evars>>

\* a peer writes one byte that is no discriminator
codec_write_unknown(b) ==
    /\ ~cfin
    /\ Len(cqueue) < MaxInFlight
    /\ cwire' = Append(cwire, b)
    /\ cqueue' = Append(cqueue, [kind |-> "unknown", byte |-> b, bytes |-> 1])
    /\ UNCHANGED <<cfin, cexpect, cres, pvars, rvars, hvars, evars>>

\* the stream ends, the last k bytes written never arriving (k = 0: a
\* stream that ends after a whole message)
codec_end(k) ==
    /\ ~cfin
    /\ k <= Len(cwire)
    /\ Len(cqueue) > 0 => k < cqueue[Len(cqueue)].bytes
    /\ cfin' = TRUE
    /\ cwire' = SubSeq(cwire, 1, Len(cwire) - k)
    /\ cqueue' = IF k = 0 THEN cqueue
                 ELSE [cqueue EXCEPT ![Len(cqueue)] =
                          [kind |-> "cut", bytes |-> @.bytes - k]]
    /\ UNCHANGED <<cexpect, cres, pvars, rvars, hvars, evars>>

\* CallMessage::recv(stream)
codec_recv ==
    /\ recv_ready(cwire, cfin)
    /\ cres' = recv(cwire, cfin)
    /\ cwire' = Drop(cwire, recv(cwire, cfin).taken)
    /\ cexpect' = IF Len(cqueue) > 0 THEN cqueue[1] ELSE [kind |-> "end"]
    /\ cqueue' = IF Len(cqueue) > 0 THEN Tail(cqueue) ELSE cqueue
    /\ UNCHANGED <<cfin, pvars, rvars, hvars, evars>>

CodecNext ==
    \/ \E m \in CallMessages : codec_send(m)
    \/ \E b \in UnknownBytes : codec_write_unknown(b)
    \/ \E k \in 0..4 : codec_end(k)
    \/ codec_recv

\* ------------------------------------------------------------------- Init
ProtocolInit ==
    /\ CALL_IN_PROGRESS = FALSE
    /\ lpc = [s \in Sessions |-> "idle"]
    /\ lres = [s \in Sessions |-> "none"]
    /\ acq = [s \in Sessions |-> 0]
    /\ rel = [s \in Sessions |-> 0]
    /\ exitBranch = [s \in Sessions |-> "none"]
    /\ stop_flag = [s \in Sessions |-> FALSE]
    /\ athr = [s \in Sessions |-> "none"]
    /\ ready = [s \in Sessions |-> "none"]
    /\ call_hangup = [s \in Sessions |-> 0]
    /\ lwrote = [s \in Sessions |-> <<>>]
    /\ lsend = [s \in Sessions |-> "none"]
    /\ dpc = [s \in Sessions |-> "start"]
    /\ dres = [s \in Sessions |-> "none"]
    /\ hsig = [s \in Sessions |-> FALSE]
    /\ dwrote = [s \in Sessions |-> <<>>]
    /\ hupInRace = [s \in Sessions |-> FALSE]
    /\ conn = [s \in Sessions |-> "none"]
    /\ d2l = [s \in Sessions |-> <<>>]
    /\ d2lFin = [s \in Sessions |-> FALSE]
    /\ l2d = [s \in Sessions |-> <<>>]
    /\ l2dFin = [s \in Sessions |-> FALSE]
    /\ faults = 0

\* ------------------------------------------------ the listener: protocol.rs
\* RadyoProtocol::accept: one incoming_call_handler task per connection
accept(s) ==
    /\ lpc[s] = "idle"
    /\ conn[s] # "none"
    /\ lpc' = [lpc EXCEPT ![s] = "accept_bi"]
    /\ UNCHANGED <<CALL_IN_PROGRESS, lres, acq, rel, exitBranch,
                   call_hangup, lwrote, lsend, avars, dvars, tvars, cvars, rvars, hvars, evars>>

\* --------------------------------------------------- the listener: call.rs
\* what the `?` after accept_bi() and after the read_exact of the invite
\* does to the flag when it returns the error: handle_incoming_call has not
\* reached try_acquire_call() and does not release
early_return_flag_mut(flag) == FALSE

early_return_flag(flag) == flag

\* handle_incoming_call: conn.accept_bi().await?
accept_bi(s) ==
    /\ lpc[s] = "accept_bi"
    /\ \/ /\ Len(dwrote[s]) > 0 /\ dwrote[s][1][2]
          /\ lpc' = [lpc EXCEPT ![s] = "read_invite"]
          /\ lsend' = [lsend EXCEPT ![s] = "open"]
          /\ UNCHANGED <<lres, CALL_IN_PROGRESS>>
       \/ /\ conn[s] = "lost"
          /\ lpc' = [lpc EXCEPT ![s] = "done"]
          /\ lres' = [lres EXCEPT ![s] = "err"]
          /\ CALL_IN_PROGRESS' = early_return_flag(CALL_IN_PROGRESS)
          /\ UNCHANGED lsend
    /\ UNCHANGED <<acq, rel, exitBranch, call_hangup,
                   lwrote, avars, dvars, tvars, cvars, rvars, hvars, evars>>

\* handle_incoming_call: recv.read_exact(&mut buffer).await? and the
\* comparison with b"INCOMING_CALL"
read_invite(s) ==
    /\ lpc[s] = "read_invite"
    /\ \/ /\ ReadReady(d2l[s], InviteBufLen)
          /\ d2l' = [d2l EXCEPT ![s] = Drop(d2l[s], InviteBufLen)]
          /\ IF is_invite(Take(d2l[s], InviteBufLen))
             THEN /\ lpc' = [lpc EXCEPT ![s] = "acquire"]
                  /\ UNCHANGED <<lres, lsend, l2dFin>>
             ELSE /\ lpc' = [lpc EXCEPT ![s] = "done"]
                  /\ lres' = [lres EXCEPT ![s] = "ok"]
                  /\ lsend' = [lsend EXCEPT ![s] = "dropped"]
                  /\ l2dFin' = [l2dFin EXCEPT ![s] = TRUE]
          /\ UNCHANGED CALL_IN_PROGRESS
       \/ /\ ReadFails(d2l[s], d2lFin[s], conn[s], InviteBufLen)
          /\ lpc' = [lpc EXCEPT ![s] = "done"]
          /\ lres' = [lres EXCEPT ![s] = "err"]
          /\ lsend' = [lsend EXCEPT ![s] = "dropped"]
          /\ l2dFin' = [l2dFin EXCEPT ![s] = TRUE]
          /\ CALL_IN_PROGRESS' = early_return_flag(CALL_IN_PROGRESS)
          /\ UNCHANGED d2l
    /\ UNCHANGED <<acq, rel, exitBranch, call_hangup,
                   lwrote, avars, dvars, conn, d2lFin, l2d, faults, cvars, rvars, hvars, evars>>

\* handle_incoming_call: if !CallManager::try_acquire_call()
acquire(s) ==
    /\ lpc[s] = "acquire"
    /\ IF try_acquire_call(CALL_IN_PROGRESS)
       THEN /\ CALL_IN_PROGRESS' = compare_exchange_store(CALL_IN_PROGRESS)
            /\ acq' = [acq EXCEPT ![s] = @ + 1]
            /\ lpc' = [lpc EXCEPT ![s] = "play"]
       ELSE /\ lpc' = [lpc EXCEPT ![s] = "busy"]
            /\ UNCHANGED <<CALL_IN_PROGRESS, acq>>
    /\ UNCHANGED <<lres, rel, exitBranch, call_hangup, lwrote, lsend,
                   avars, dvars, tvars, cvars, rvars, hvars, evars>>

\* what the rejected branch of handle_incoming_call does to the flag: it
\* returns before the release_call() of the admitted branch
busy_branch_flag_mut(flag) == FALSE

busy_branch_flag(flag) == flag

\* the send half at the end of the rejected branch: finish() is called
\* after a successful write; on a failed write the `?` returns first and
\* the half is only dropped
busy_send_half_mut(ok) == "dropped"

busy_send_half(ok) == IF ok THEN "finished" ELSE "dropped"

\* handle_incoming_call: send.write_all(b"BUSY").await?; send.finish()?;
\* return Ok(())
reject_busy(s) ==
    /\ lpc[s] = "busy"
    /\ \E ok \in ListenerWriteOutcomes(s) :
          /\ lwrote' = [lwrote EXCEPT ![s] = Append(@, <<"BUSY", ok>>)]
          /\ l2d' = [l2d EXCEPT ![s] = IF ok THEN @ \o BUSY ELSE @]
          /\ lsend' = [lsend EXCEPT ![s] = busy_send_half(ok)]
          /\ lres' = [lres EXCEPT ![s] = IF ok THEN "ok" ELSE "err"]
    /\ l2dFin' = [l2dFin EXCEPT ![s] = TRUE]
    /\ lpc' = [lpc EXCEPT ![s] = "done"]
    /\ CALL_IN_PROGRESS' = busy_branch_flag(CALL_IN_PROGRESS)
    /\ UNCHANGED <<acq, rel, exitBranch, call_hangup,
                   avars, dvars, conn, d2l, d2lFin, faults, cvars, rvars, hvars, evars>>

\* handle_incoming_call once play_caller_ringtone_with_hangup_ack has
\* returned `result`: release_call() comes first, result? after it
after_play_mut(result) == IF result = "err" THEN "done" ELSE "release"

after_play(result) == "release"

\* play_caller_ringtone_with_hangup_ack: AudioManager::new() and
\* audio_manager.play_ringtone_async(ringtone_name, call_id)?  (audio.rs:
\* the file is read, the audio thread is spawned)
play_ringtone_async(s) ==
    /\ lpc[s] = "play"
    /\ \E exists \in BOOLEAN, reqOk \in BOOLEAN, fbOk \in BOOLEAN :
          IF LoadRingtone(exists, reqOk, fbOk) = "error"
          THEN /\ lpc' = [lpc EXCEPT ![s] = after_play("err")]
               /\ lres' = [lres EXCEPT ![s] = "err"]
               /\ lsend' = [lsend EXCEPT ![s] = "dropped"]
               /\ l2dFin' = [l2dFin EXCEPT ![s] = TRUE]
               /\ UNCHANGED <<athr, ready>>
          ELSE /\ lpc' = [lpc EXCEPT ![s] = "wait_ready"]
               /\ athr' = [athr EXCEPT ![s] = "setup"]
               /\ ready' = [ready EXCEPT ![s] = "pending"]
               /\ UNCHANGED <<lres, lsend, l2dFin>>
    /\ UNCHANGED <<CALL_IN_PROGRESS, acq, rel, exitBranch, call_hangup,
                   lwrote, stop_flag, dvars, conn, d2l, d2lFin, l2d, faults, cvars, rvars, hvars, evars>>

\* tokio::time::timeout(Duration::from_secs(5), audio_ready_rx): the five
\* seconds can run out whatever the audio thread does
audio_ready_timeout_mut == FALSE

audio_ready_timeout == TRUE


\* play_caller_ringtone_with_hangup_ack: the wait for audio_ready_rx, bounded
\* by tokio::time::timeout(5 s); each of the three outcomes continues
wait_ready(s) ==
    /\ lpc[s] = "wait_ready"
    /\ \/ ready[s] = "sent"
       \/ ready[s] = "closed"
       \/ audio_ready_timeout
    /\ lpc' = [lpc EXCEPT ![s] = "race"]
    /\ UNCHANGED <<CALL_IN_PROGRESS, lres, acq, rel, exitBranch,
                   call_hangup, lwrote, lsend, avars, dvars, tvars, cvars, rvars, hvars, evars>>


\* play_caller_ringtone_with_hangup_ack, select!: result = audio_task (the
\* spawned task that sleeps 3600 s)
race_audio_task(s) ==
    /\ lpc[s] = "race"
    /\ lpc' = [lpc EXCEPT ![s] = "cleanup"]
    /\ exitBranch' = [exitBranch EXCEPT ![s] = "audio_task"]
    /\ UNCHANGED <<CALL_IN_PROGRESS, lres, acq, rel, call_hangup, lwrote, lsend,
                   avars, dvars, tvars, cvars, rvars, hvars, evars>>

\* play_caller_ringtone_with_hangup_ack, select!: hangup_received =
\* peer_hangup_monitor (recv.read_exact of 6 bytes); on HANGUP the branch
\* calls audio_manager.stop() and goes on to write the acknowledgment
race_peer_hangup_monitor(s) ==
    /\ lpc[s] = "race"
    /\ \/ /\ ReadReady(d2l[s], HangupBufLen)
          /\ d2l' = [d2l EXCEPT ![s] = Drop(d2l[s], HangupBufLen)]
          /\ IF is_hangup(Take(d2l[s], HangupBufLen))
             THEN /\ exitBranch' = [exitBranch EXCEPT ![s] = "peer_hangup"]
                  /\ stop_flag' = [stop_flag EXCEPT ![s] = stop(@)]
                  /\ lpc' = [lpc EXCEPT ![s] = "ack"]
             ELSE /\ exitBranch' = [exitBranch EXCEPT ![s] = "unexpected_data"]
                  /\ lpc' = [lpc EXCEPT ![s] = "cleanup"]
                  /\ UNCHANGED stop_flag
       \/ /\ ReadFails(d2l[s], d2lFin[s], conn[s], HangupBufLen)
          /\ exitBranch' = [exitBranch EXCEPT ![s] = "connection_lost"]
          /\ lpc' = [lpc EXCEPT ![s] = "cleanup"]
          /\ UNCHANGED <<d2l, stop_flag>>
    /\ UNCHANGED <<CALL_IN_PROGRESS, lres, acq, rel, call_hangup, lwrote, lsend,
                   athr, ready, dvars, conn, d2lFin, l2d, l2dFin, faults, cvars, rvars, hvars, evars>>

\* where the peer-hangup branch goes after `if let Err(e) =
\* send.write_all(b"HANGUP_ACK").await`: both arms print and fall through
after_ack_write_mut(ok) == IF ok THEN "cleanup" ELSE "release"

after_ack_write(ok) == "cleanup"

\* the peer-hangup branch after stop(): send.write_all(b"HANGUP_ACK"), whose
\* failure is only logged, then call_hangup_tx.send(())
write_hangup_ack(s) ==
    /\ lpc[s] = "ack"
    /\ \E ok \in ListenerWriteOutcomes(s) :
          /\ lwrote' = [lwrote EXCEPT ![s] = Append(@, <<"HANGUP_ACK", ok>>)]
          /\ l2d' = [l2d EXCEPT ![s] = IF ok THEN @ \o HANGUP_ACK ELSE @]
          /\ lpc' = [lpc EXCEPT ![s] = after_ack_write(ok)]
    /\ call_hangup' = [call_hangup EXCEPT ![s] = @ + 1]
    /\ UNCHANGED <<CALL_IN_PROGRESS, lres, acq, rel, exitBranch, lsend,
                   avars, dvars, conn, d2l, d2lFin, l2dFin, faults, cvars, rvars, hvars, evars>>

\* play_caller_ringtone_with_hangup_ack, select!: _ = tokio::signal::ctrl_c()
race_ctrl_c(s) ==
    /\ lpc[s] = "race"
    /\ exitBranch' = [exitBranch EXCEPT ![s] = "ctrl_c"]
    /\ stop_flag' = [stop_flag EXCEPT ![s] = stop(@)]
    /\ call_hangup' = [call_hangup EXCEPT ![s] = @ + 1]
    /\ lpc' = [lpc EXCEPT ![s] = "cleanup"]
    /\ UNCHANGED <<CALL_IN_PROGRESS, lres, acq, rel, lwrote, lsend, athr, ready,
                   dvars, tvars, cvars, rvars, hvars, evars>>

\* what play_caller_ringtone_with_hangup_ack returns after the select!: no
\* branch returns early or keeps an error, the function ends in Ok(())
race_result_mut(branch) ==
    IF branch \in {"connection_lost", "unexpected_data"} THEN "err" ELSE "ok"

race_result(branch) == "ok"

\* play_caller_ringtone_with_hangup_ack after the select!: drop(send), the
\* 100 ms sleep, Ok(())
cleanup(s) ==
    /\ lpc[s] = "cleanup"
    /\ lsend' = [lsend EXCEPT ![s] = "dropped"]
    /\ l2dFin' = [l2dFin EXCEPT ![s] = TRUE]
    /\ lres' = [lres EXCEPT ![s] = race_result(exitBranch[s])]
    /\ lpc' = [lpc EXCEPT ![s] = after_play(race_result(exitBranch[s]))]
    /\ UNCHANGED <<CALL_IN_PROGRESS, acq, rel, exitBranch, call_hangup,
                   lwrote, avars, dvars, conn, d2l, d2lFin, l2d, faults, cvars, rvars, hvars, evars>>

\* handle_incoming_call after play_caller_ringtone_with_hangup_ack returned:
\* CallManager::release_call(); result?; Ok(())
release(s) ==
    /\ lpc[s] = "release"
    /\ CALL_IN_PROGRESS' = release_call(CALL_IN_PROGRESS)
    /\ rel' = [rel EXCEPT ![s] = @ + 1]
    /\ lpc' = [lpc EXCEPT ![s] = "done"]
    /\ UNCHANGED <<lres, acq, exitBranch, call_hangup, lwrote, lsend,
                   avars, dvars, tvars, cvars, rvars, hvars, evars>>

\* play_caller_ringtone_with_hangup_ack, select!: _ = call_hangup_rx.recv(),
\* the receiver of the channel created for this call at the top of the
\* function; its sender is used inside the other branches only
race_call_hangup_rx(s) ==
    /\ lpc[s] = "race"
    /\ call_hangup[s] > 0
    /\ exitBranch' = [exitBranch EXCEPT ![s] = "local_hangup"]
    /\ stop_flag' = [stop_flag EXCEPT ![s] = stop(@)]
    /\ call_hangup' = [call_hangup EXCEPT ![s] = @ - 1]
    /\ lpc' = [lpc EXCEPT ![s] = "cleanup"]
    /\ UNCHANGED <<CALL_IN_PROGRESS, lres, acq, rel, lwrote, lsend, athr, ready,
                   dvars, tvars, cvars, rvars, hvars, evars>>

\* hangup() called in the listener's process while session s is in its
\* race: init_hangup_system() is called by peer_mode only, so HANGUP_SIGNAL
\* is unset there and nothing is sent; a message sent on HANGUP_SIGNAL
\* would not be one on the channel of the call either
listener_hangup(s) ==
    /\ lpc[s] = "race"
    /\ ~lhangup[s]
    /\ lhangup' = [lhangup EXCEPT ![s] = TRUE]
    /\ UNCHANGED <<pvars, cvars, rvars, evars>>

\* ------------------------------------------- the audio thread: audio.rs
\* the closure of std::thread::spawn up to audio_ready_tx.send(()): the
\* output stream, the sink and the decoder are created, any of which can fail
audio_setup(s) ==
    /\ athr[s] = "setup"
    /\ \/ /\ athr' = [athr EXCEPT ![s] = "loop"]
          /\ ready' = [ready EXCEPT ![s] = "sent"]
       \/ /\ athr' = [athr EXCEPT ![s] = "failed"]
          /\ ready' = [ready EXCEPT ![s] = "closed"]
    /\ UNCHANGED <<CALL_IN_PROGRESS, lvars, stop_flag, dvars, tvars, cvars, rvars, hvars, evars>>

\* one turn of the polling loop: sink.empty() is looked at first, then the
\* stop flag (sink.stop() and break), then the thread sleeps 100 ms and
\* stays in the loop
poll_mut(empty, flag) == IF empty THEN "finished" ELSE "loop"

poll(empty, flag) ==
    IF empty THEN "finished"
    ELSE IF flag THEN "stopped"
    ELSE "loop"

audio_loop(s) ==
    /\ athr[s] = "loop"
    /\ \E empty \in BOOLEAN : athr' = [athr EXCEPT ![s] = poll(empty, stop_flag[s])]
    /\ UNCHANGED <<CALL_IN_PROGRESS, lvars, stop_flag, ready, dvars, tvars, cvars, rvars, hvars, evars>>

\* AudioManager::is_stopped
is_stopped(flag) == flag

\* the AudioManager of s used by itself: play_ringtone_async returns Ok and
\* the thread is spawned
audio_start(s) ==
    /\ athr[s] = "none"
    /\ athr' = [athr EXCEPT ![s] = "setup"]
    /\ ready' = [ready EXCEPT ![s] = "pending"]
    /\ UNCHANGED <<CALL_IN_PROGRESS, lvars, stop_flag, dvars, tvars, cvars, rvars, hvars, evars>>

\* AudioManager::stop() called by the owner of the manager, at any time
\* and any number of times
audio_stop(s) ==
    /\ stop_flag' = [stop_flag EXCEPT ![s] = stop(@)]
    /\ UNCHANGED <<CALL_IN_PROGRESS, lvars, athr, ready, dvars, tvars, cvars, rvars, hvars, evars>>

AudioNext ==
    \E s \in Sessions :
        \/ audio_start(s)
        \/ audio_setup(s)
        \/ audio_loop(s)
        \/ audio_stop(s)


\* ------------------------------------------------- the dialer: modes.rs
\* peer_mode up to conn.open_bi().await?: init_hangup_system(), the ticket
\* is parsed, the endpoint bound, the connection and the stream opened
peer_connect(s) ==
    /\ dpc[s] = "start"
    /\ IF s = 1 THEN TRUE ELSE dpc[s - 1] # "start"
    /\ \/ /\ conn' = [conn EXCEPT ![s] = "open"]
          /\ dpc' = [dpc EXCEPT ![s] = "write_invite"]
          /\ UNCHANGED <<dres, d2lFin>>
       \/ /\ dpc' = [dpc EXCEPT ![s] = "done"]
          /\ dres' = [dres EXCEPT ![s] = "err"]
          /\ d2lFin' = [d2lFin EXCEPT ![s] = TRUE]
          /\ UNCHANGED conn
    /\ UNCHANGED <<CALL_IN_PROGRESS, lvars, avars, hsig, dwrote, hupInRace,
                   d2l, l2d, l2dFin, faults, cvars, rvars, hvars, evars>>

\* hangup(): a message on HANGUP_SIGNAL, which init_hangup_system() set in
\* the dialer's process
hangup(s) ==
    /\ dpc[s] = "race"
    /\ ~hsig[s]
    /\ hsig' = [hsig EXCEPT ![s] = TRUE]
    /\ UNCHANGED <<CALL_IN_PROGRESS, lvars, avars, dpc, dres, dwrote, hupInRace, tvars, cvars, rvars, hvars, evars>>

\* peer_mode: send.write_all(b"INCOMING_CALL").await?
peer_write_invite(s) ==
    /\ dpc[s] = "write_invite"
    /\ \E ok \in DialerWriteOutcomes(s) :
          /\ dwrote' = [dwrote EXCEPT ![s] = Append(@, <<"INCOMING_CALL", ok>>)]
          /\ d2l' = [d2l EXCEPT ![s] = IF ok THEN @ \o INCOMING_CALL ELSE @]
          /\ dpc' = [dpc EXCEPT ![s] = IF ok THEN "race" ELSE "done"]
          /\ dres' = [dres EXCEPT ![s] = IF ok THEN @ ELSE "err"]
          /\ d2lFin' = [d2lFin EXCEPT ![s] = ~ok]
    /\ UNCHANGED <<CALL_IN_PROGRESS, lvars, avars, hsig, hupInRace, conn, l2d, l2dFin, faults, cvars, rvars, hvars, evars>>

\* peer_mode, select!: _ = tokio::signal::ctrl_c(), then hangup().await?
peer_ctrl_c(s) ==
    /\ dpc[s] = "race"
    /\ hsig' = [hsig EXCEPT ![s] = TRUE]
    /\ dpc' = [dpc EXCEPT ![s] = "ctrl_c_send"]
    /\ UNCHANGED <<CALL_IN_PROGRESS, lvars, avars, dres, dwrote, hupInRace, tvars, cvars, rvars, hvars, evars>>

\* peer_mode, select!: _ = hangup_rx.recv()
peer_hangup_rx(s) ==
    /\ dpc[s] = "race"
    /\ hsig[s]
    /\ hsig' = [hsig EXCEPT ![s] = FALSE]
    /\ dpc' = [dpc EXCEPT ![s] = "hangup_rx_send"]
    /\ UNCHANGED <<CALL_IN_PROGRESS, lvars, avars, dres, dwrote, hupInRace, tvars, cvars, rvars, hvars, evars>>

\* what peer_mode does to CALL_IN_PROGRESS on its way out: it calls
\* init_hangup_system() and hangup() of CallManager and never
\* try_acquire_call() or release_call()
peer_mode_gate_mut(flag) == FALSE

peer_mode_gate(flag) == flag

\* tokio::time::sleep(Duration::from_secs(30)) of peer_mode's select!: the
\* thirty seconds run out whatever the listener and the connection do
call_timeout_mut == FALSE

call_timeout == TRUE

\* the dialer's send half: opened by open_bi(), never finished, dropped
\* when peer_mode returns
dsend(s) ==
    IF dpc[s] = "start" \/ (dpc[s] = "done" /\ dwrote[s] = <<>>) THEN "none"
    ELSE IF dpc[s] = "done" THEN "dropped"
    ELSE "open"

\* peer_mode, select!: _ = tokio::time::sleep(30 s); then Ok(()), which
\* drops the stream and the connection
peer_timeout(s) ==
    /\ dpc[s] = "race"
    /\ call_timeout
    /\ dpc' = [dpc EXCEPT ![s] = "done"]
    /\ dres' = [dres EXCEPT ![s] = "timeout"]
    /\ d2lFin' = [d2lFin EXCEPT ![s] = TRUE]
    /\ CALL_IN_PROGRESS' = peer_mode_gate(CALL_IN_PROGRESS)
    /\ UNCHANGED <<lvars, avars, hsig, dwrote, hupInRace,
                   conn, d2l, l2d, l2dFin, faults, cvars, rvars, hvars, evars>>

\* where peer_mode goes after send_hangup_to_caller(&mut send).await?
\* returned Ok: the Ctrl+C branch reads the acknowledgment, the hangup_rx
\* branch is over
after_hangup_sent_mut(pc) == "done"

after_hangup_sent_again_mut(pc) == IF pc = "ctrl_c_send" THEN "race" ELSE "done"

after_hangup_sent(pc) == IF pc = "ctrl_c_send" THEN "await_ack" ELSE "done"

\* call.rs send_hangup_to_caller: send.write_all(b"HANGUP"), Err on failure;
\* called from both hangup branches of peer_mode
send_hangup_to_caller(s) ==
    /\ dpc[s] \in {"ctrl_c_send", "hangup_rx_send"}
    /\ \E ok \in DialerWriteOutcomes(s) :
          /\ dwrote' = [dwrote EXCEPT ![s] = Append(@, <<"HANGUP", ok>>)]
          /\ d2l' = [d2l EXCEPT ![s] = IF ok THEN @ \o HANGUP ELSE @]
          /\ hupInRace' = [hupInRace EXCEPT ![s] = ok /\ lpc[s] = "race"]
          /\ LET next == IF ok THEN after_hangup_sent(dpc[s]) ELSE "done"
             IN  /\ dpc' = [dpc EXCEPT ![s] = next]
                 /\ dres' = [dres EXCEPT ![s] =
                        IF ~ok THEN "err"
                        ELSE IF next = "done" THEN "local_hangup" ELSE @]
                 /\ d2lFin' = [d2lFin EXCEPT ![s] = next = "done"]
    /\ CALL_IN_PROGRESS' = peer_mode_gate(CALL_IN_PROGRESS)
    /\ UNCHANGED <<lvars, avars, hsig, conn, l2d, l2dFin, faults, cvars, rvars, hvars, evars>>

\* peer_mode, Ctrl+C branch: recv.read_exact(&mut ack_buf) of 10 bytes;
\* Ok and equal to b"HANGUP_ACK" is the acknowledged end, anything else
\* the end without acknowledgment
peer_await_ack(s) ==
    /\ dpc[s] = "await_ack"
    /\ \/ /\ ReadReady(l2d[s], AckBufLen)
          /\ l2d' = [l2d EXCEPT ![s] = Drop(l2d[s], AckBufLen)]
          /\ dres' = [dres EXCEPT ![s] =
                 IF Take(l2d[s], AckBufLen) = HANGUP_ACK THEN "acked" ELSE "no_ack"]
       \/ /\ ReadFails(l2d[s], l2dFin[s], conn[s], AckBufLen)
          /\ dres' = [dres EXCEPT ![s] = "no_ack"]
          /\ UNCHANGED l2d
    /\ dpc' = [dpc EXCEPT ![s] = "done"]
    /\ d2lFin' = [d2lFin EXCEPT ![s] = TRUE]
    /\ CALL_IN_PROGRESS' = peer_mode_gate(CALL_IN_PROGRESS)
    /\ UNCHANGED <<lvars, avars, hsig, dwrote, hupInRace,
                   conn, d2l, l2dFin, faults, cvars, rvars, hvars, evars>>

\* ------------------------------- a peer that is not peer_mode of this crate
\* what such a peer can put on the stream where the invite is expected: 13
\* bytes that are not the marker, or fewer than 13 bytes and the end
ForeignInvites == {<<73, 78, 67, 79, 77, 73, 78, 71, 95, 67, 65, 76, 88>>, <<73, 78, 67>>}

\* and where HANGUP is expected: 6 other bytes, or fewer than 6 and the end
ForeignHangups == {<<72, 65, 78, 71, 85, 88>>, <<72, 65, 78>>}

\* the peer has opened its stream and writes, where the invite is expected,
\* other bytes and finishes, or the invite like peer_mode does
foreign_invite(s) ==
    /\ dpc[s] = "write_invite"
    /\ conn[s] = "open"
    /\ \/ /\ \E bytes \in ForeignInvites : d2l' = [d2l EXCEPT ![s] = @ \o bytes]
          /\ dwrote' = [dwrote EXCEPT ![s] = Append(@, <<"OTHER", TRUE>>)]
          /\ dpc' = [dpc EXCEPT ![s] = "done"]
          /\ dres' = [dres EXCEPT ![s] = "foreign"]
          /\ d2lFin' = [d2lFin EXCEPT ![s] = TRUE]
       \/ /\ d2l' = [d2l EXCEPT ![s] = @ \o INCOMING_CALL]
          /\ dwrote' = [dwrote EXCEPT ![s] = Append(@, <<"INCOMING_CALL", TRUE>>)]
          /\ dpc' = [dpc EXCEPT ![s] = "foreign_called"]
          /\ UNCHANGED <<dres, d2lFin>>
    /\ UNCHANGED <<CALL_IN_PROGRESS, lvars, avars, hsig, hupInRace,
                   conn, l2d, l2dFin, faults, cvars, rvars, hvars, evars>>

\* after its invite the peer writes, where HANGUP is expected, other bytes
\* and finishes
foreign_data(s) ==
    /\ dpc[s] = "foreign_called"
    /\ conn[s] = "open"
    /\ \E bytes \in ForeignHangups : d2l' = [d2l EXCEPT ![s] = @ \o bytes]
    /\ dwrote' = [dwrote EXCEPT ![s] = Append(@, <<"OTHER", TRUE>>)]
    /\ dpc' = [dpc EXCEPT ![s] = "done"]
    /\ dres' = [dres EXCEPT ![s] = "foreign"]
    /\ d2lFin' = [d2lFin EXCEPT ![s] = TRUE]
    /\ UNCHANGED <<CALL_IN_PROGRESS, lvars, avars, hsig, hupInRace,
                   conn, l2d, l2dFin, faults, cvars, rvars, hvars, evars>>

\* ------------------------ main.rs beside call.rs, audio.rs and modes.rs
\* One session of each program is run on the same events: what accept_bi
\* and the reads return, which branch of select! completes, what the
\* writes return, which ringtone files can be read. A session is the record
\*   pc: its place, gate: CALL_IN_PROGRESS of its process, stop: its stop
\*   flag, branch: the branch of its race, res: what it returned,
\*   trace: its stores to the gate and to the stop flag and its operations
\*          on the send half, in order
Fresh == [pc |-> "idle", gate |-> FALSE, stop |-> FALSE, branch |-> "none",
          res |-> "none", trace |-> <<>>]

\* 10 bytes that are not HANGUP_ACK
WrongAck == <<72, 65, 78, 71, 85, 80, 95, 65, 67, 88>>

NoScenario ==
    [kind |-> "none", gate |-> FALSE, acceptOk |-> FALSE, buffer |-> <<>>,
     busyOk |-> FALSE, exists |-> FALSE, reqOk |-> FALSE, fbOk |-> FALSE,
     ready |-> "sent", race |-> "none", hangup_buf |-> <<>>, ackOk |-> FALSE,
     openOk |-> FALSE, inviteOk |-> FALSE, hangupOk |-> FALSE, ack_buf |-> <<>>]

\* the events of a listener session
ListenerScenarios ==
    {[NoScenario EXCEPT !.kind = "listener", !.gate = g, !.acceptOk = a, !.buffer = b,
                        !.busyOk = w, !.exists = e, !.reqOk = r, !.fbOk = f,
                        !.ready = y, !.race = c, !.hangup_buf = h, !.ackOk = k] :
        g \in BOOLEAN, a \in BOOLEAN, b \in {INCOMING_CALL} \cup ForeignInvites,
        w \in BOOLEAN, e \in BOOLEAN, r \in BOOLEAN, f \in BOOLEAN,
        y \in {"sent", "closed", "timeout"},
        c \in {"audio_task", "peer_hangup_monitor", "ctrl_c"},
        h \in {HANGUP} \cup ForeignHangups, k \in BOOLEAN}

\* the events of a dialer session
DialerScenarios ==
    {[NoScenario EXCEPT !.kind = "dialer", !.gate = g, !.openOk = o, !.inviteOk = i,
                        !.race = c, !.hangupOk = w, !.ack_buf = k] :
        g \in BOOLEAN, o \in BOOLEAN, i \in BOOLEAN,
        c \in {"ctrl_c", "hangup_rx", "sleep"},
        w \in BOOLEAN, k \in {HANGUP_ACK, WrongAck, BUSY}}

\* a store to CALL_IN_PROGRESS, a store to the stop flag, an operation on
\* the send half
GateEvent(value) == <<"gate", "store", value>>

StopEvent(value) == <<"stop", "store", value>>

WriteEvent(marker, ok) == <<"write", marker, ok>>

SendEvent(half) == <<"send", half, TRUE>>

\* the end of a session with result r
Ended(st, r) == [st EXCEPT !.pc = "done", !.res = r]

\* ---- call.rs and audio.rs: handle_incoming_call, one step from st.pc
handle_incoming_call(st, in) ==
    CASE st.pc = "accept_bi" ->
           IF in.acceptOk THEN [st EXCEPT !.pc = "read_invite"]
           ELSE [Ended(st, "err") EXCEPT !.gate = early_return_flag(@)]
      [] st.pc = "read_invite" ->
           IF ~ReadReady(in.buffer, InviteBufLen)
           THEN [Ended(st, "err") EXCEPT !.gate = early_return_flag(@)]
           ELSE IF is_invite(Take(in.buffer, InviteBufLen))
           THEN [st EXCEPT !.pc = "acquire"]
           ELSE Ended(st, "ok")
      [] st.pc = "acquire" ->
           IF try_acquire_call(st.gate)
           THEN [st EXCEPT !.pc = "play",
                           !.gate = compare_exchange_store(@),
                           !.trace = Append(@, GateEvent(compare_exchange_store(st.gate)))]
           ELSE [st EXCEPT !.pc = "busy"]
      [] st.pc = "busy" ->
           [Ended(st, IF in.busyOk THEN "ok" ELSE "err") EXCEPT
                !.gate = busy_branch_flag(@),
                !.trace = @ \o <<WriteEvent("BUSY", in.busyOk),
                                 SendEvent(busy_send_half(in.busyOk))>>]
      [] st.pc = "play" ->
           IF LoadRingtone(in.exists, in.reqOk, in.fbOk) = "error"
           THEN [st EXCEPT !.pc = after_play("err"), !.res = "err",
                           !.trace = Append(@, SendEvent("dropped"))]
           ELSE [st EXCEPT !.pc = "wait_ready"]
      [] st.pc = "wait_ready" ->
           IF in.ready \in {"sent", "closed"} \/ audio_ready_timeout
           THEN [st EXCEPT !.pc = "race"]
           ELSE st
      [] st.pc = "race" ->
           IF in.race = "audio_task"
           THEN [st EXCEPT !.pc = "cleanup", !.branch = "audio_task"]
           ELSE IF in.race = "ctrl_c"
           THEN [st EXCEPT !.pc = "cleanup", !.branch = "ctrl_c",
                           !.stop = stop(@),
                           !.trace = Append(@, StopEvent(stop(st.stop)))]
           ELSE IF ~ReadReady(in.hangup_buf, HangupBufLen)
           THEN [st EXCEPT !.pc = "cleanup", !.branch = "connection_lost"]
           ELSE IF is_hangup(Take(in.hangup_buf, HangupBufLen))
           THEN [st EXCEPT !.pc = "ack", !.branch = "peer_hangup",
                           !.stop = stop(@),
                           !.trace = Append(@, StopEvent(stop(st.stop)))]
           ELSE [st EXCEPT !.pc = "cleanup", !.branch = "unexpected_data"]
      [] st.pc = "ack" ->
           [st EXCEPT !.pc = after_ack_write(in.ackOk),
                      !.trace = Append(@, WriteEvent("HANGUP_ACK", in.ackOk))]
      [] st.pc = "cleanup" ->
           [st EXCEPT !.pc = after_play(race_result(st.branch)),
                      !.res = race_result(st.branch),
                      !.trace = Append(@, SendEvent("dropped"))]
      [] st.pc = "release" ->
           [st EXCEPT !.pc = "done",
                      !.gate = release_call(@),
                      !.trace = Append(@, GateEvent(release_call(st.gate)))]
      [] OTHER -> st

\* ---- modes.rs: peer_mode, one step from st.pc
peer_mode(st, in) ==
    CASE st.pc = "open_bi" ->
           IF in.openOk THEN [st EXCEPT !.pc = "write_invite"]
           ELSE [Ended(st, "err") EXCEPT !.gate = peer_mode_gate(@)]
      [] st.pc = "write_invite" ->
           IF in.inviteOk
           THEN [st EXCEPT !.pc = "race",
                           !.trace = Append(@, WriteEvent("INCOMING_CALL", TRUE))]
           ELSE [Ended(st, "err") EXCEPT
                    !.gate = peer_mode_gate(@),
                    !.trace = Append(@, WriteEvent("INCOMING_CALL", FALSE))]
      [] st.pc = "race" ->
           IF in.race = "ctrl_c"
           THEN [st EXCEPT !.pc = "ctrl_c_send", !.branch = "ctrl_c"]
           ELSE IF in.race = "hangup_rx"
           THEN [st EXCEPT !.pc = "hangup_rx_send", !.branch = "hangup_rx"]
           ELSE IF call_timeout
           THEN [Ended(st, "timeout") EXCEPT !.branch = "sleep", !.gate = peer_mode_gate(@)]
           ELSE st
      [] st.pc \in {"ctrl_c_send", "hangup_rx_send"} ->
           IF ~in.hangupOk
           THEN [Ended(st, "err") EXCEPT
                    !.gate = peer_mode_gate(@),
                    !.trace = Append(@, WriteEvent("HANGUP", FALSE))]
           ELSE IF after_hangup_sent(st.pc) = "done"
           THEN [Ended(st, "local_hangup") EXCEPT
                    !.gate = peer_mode_gate(@),
                    !.trace = Append(@, WriteEvent("HANGUP", TRUE))]
           ELSE [st EXCEPT !.pc = after_hangup_sent(st.pc),
                           !.trace = Append(@, WriteEvent("HANGUP", TRUE))]
      [] st.pc = "await_ack" ->
           [Ended(st, IF ReadReady(in.ack_buf, AckBufLen)
                         /\ Take(in.ack_buf, AckBufLen) = HANGUP_ACK
                      THEN "acked" ELSE "no_ack") EXCEPT !.gate = peer_mode_gate(@)]
      [] OTHER -> st

\* ---- main.rs
\* CALL_IN_PROGRESS.compare_exchange(false, true, Acquire, Relaxed): whether
\* it is_err(), and the value it leaves
main_compare_exchange_is_err(flag) == flag # FALSE

main_compare_exchange(flag) == IF flag = FALSE THEN TRUE ELSE flag

\* CALL_IN_PROGRESS.store(false, Release)
main_store_release(flag) == FALSE

\* stop_flag.store(true, Relaxed)
main_stop_flag_store_mut(flag) == flag

main_stop_flag_store(flag) == TRUE

\* the file read at the top of play_caller_ringtone_with_hangup_ack: the
\* requested one when its path exists, ringtons/lost_woods.mp3 otherwise;
\* a failed read is the error of the function
main_file_data(exists, reqOk, fbOk) ==
    IF exists
    THEN (IF reqOk THEN "requested" ELSE "error")
    ELSE (IF fbOk THEN "fallback" ELSE "error")

\* main.rs handle_incoming_call with play_caller_ringtone_with_hangup_ack,
\* one step from st.pc
main_handle_incoming_call(st, in) ==
    CASE st.pc = "accept_bi" ->
           IF in.acceptOk THEN [st EXCEPT !.pc = "read_invite"]
           ELSE Ended(st, "err")
      [] st.pc = "read_invite" ->
           IF Len(in.buffer) < InviteBufLen
           THEN Ended(st, "err")
           ELSE IF SubSeq(in.buffer, 1, InviteBufLen) = INCOMING_CALL
           THEN [st EXCEPT !.pc = "acquire"]
           ELSE Ended(st, "ok")
      [] st.pc = "acquire" ->
           IF main_compare_exchange_is_err(st.gate)
           THEN [st EXCEPT !.pc = "busy"]
           ELSE [st EXCEPT !.pc = "play",
                           !.gate = main_compare_exchange(@),
                           !.trace = Append(@, GateEvent(main_compare_exchange(st.gate)))]
      [] st.pc = "busy" ->
           IF in.busyOk
           THEN [Ended(st, "ok") EXCEPT
                    !.trace = @ \o <<WriteEvent("BUSY", TRUE), SendEvent("finished")>>]
           ELSE [Ended(st, "err") EXCEPT
                    !.trace = @ \o <<WriteEvent("BUSY", FALSE), SendEvent("dropped")>>]
      [] st.pc = "play" ->
           IF main_file_data(in.exists, in.reqOk, in.fbOk) = "error"
           THEN [st EXCEPT !.pc = "release", !.res = "err",
                           !.trace = Append(@, SendEvent("dropped"))]
           ELSE [st EXCEPT !.pc = "wait_ready"]
      [] st.pc = "wait_ready" ->
           [st EXCEPT !.pc = "race"]
      [] st.pc = "race" ->
           IF in.race = "audio_task"
           THEN [st EXCEPT !.pc = "cleanup", !.branch = "audio_task"]
           ELSE IF in.race = "ctrl_c"
           THEN [st EXCEPT !.pc = "cleanup", !.branch = "ctrl_c",
                           !.stop = main_stop_flag_store(@),
                           !.trace = Append(@, StopEvent(main_stop_flag_store(st.stop)))]
           ELSE IF Len(in.hangup_buf) < HangupBufLen
           THEN [st EXCEPT !.pc = "cleanup", !.branch = "connection_lost"]
           ELSE IF SubSeq(in.hangup_buf, 1, HangupBufLen) = HANGUP
           THEN [st EXCEPT !.pc = "ack", !.branch = "peer_hangup",
                           !.stop = main_stop_flag_store(@),
                           !.trace = Append(@, StopEvent(main_stop_flag_store(st.stop)))]
           ELSE [st EXCEPT !.pc = "cleanup", !.branch = "unexpected_data"]
      [] st.pc = "ack" ->
           [st EXCEPT !.pc = "cleanup",
                      !.trace = Append(@, WriteEvent("HANGUP_ACK", in.ackOk))]
      [] st.pc = "cleanup" ->
           [st EXCEPT !.pc = "release", !.res = "ok",
                      !.trace = Append(@, SendEvent("dropped"))]
      [] st.pc = "release" ->
           [st EXCEPT !.pc = "done",
                      !.gate = main_store_release(@),
                      !.trace = Append(@, GateEvent(main_store_release(st.gate)))]
      [] OTHER -> st

\* main.rs peer_mode with send_hangup_to_caller, one step from st.pc
main_peer_mode(st, in) ==
    CASE st.pc = "open_bi" ->
           IF in.openOk THEN [st EXCEPT !.pc = "write_invite"] ELSE Ended(st, "err")
      [] st.pc = "write_invite" ->
           IF in.inviteOk
           THEN [st EXCEPT !.pc = "race",
                           !.trace = Append(@, WriteEvent("INCOMING_CALL", TRUE))]
           ELSE [Ended(st, "err") EXCEPT
                    !.trace = Append(@, WriteEvent("INCOMING_CALL", FALSE))]
      [] st.pc = "race" ->
           IF in.race = "ctrl_c"
           THEN [st EXCEPT !.pc = "ctrl_c_send", !.branch = "ctrl_c"]
           ELSE IF in.race = "hangup_rx"
           THEN [st EXCEPT !.pc = "hangup_rx_send", !.branch = "hangup_rx"]
           ELSE [Ended(st, "timeout") EXCEPT !.branch = "sleep"]
      [] st.pc = "ctrl_c_send" ->
           IF in.hangupOk
           THEN [st EXCEPT !.pc = "await_ack",
                           !.trace = Append(@, WriteEvent("HANGUP", TRUE))]
           ELSE [Ended(st, "err") EXCEPT !.trace = Append(@, WriteEvent("HANGUP", FALSE))]
      [] st.pc = "hangup_rx_send" ->
           IF in.hangupOk
           THEN [Ended(st, "local_hangup") EXCEPT
                    !.trace = Append(@, WriteEvent("HANGUP", TRUE))]
           ELSE [Ended(st, "err") EXCEPT !.trace = Append(@, WriteEvent("HANGUP", FALSE))]
      [] st.pc = "await_ack" ->
           Ended(st, IF Len(in.ack_buf) >= AckBufLen
                        /\ SubSeq(in.ack_buf, 1, AckBufLen) = HANGUP_ACK
                     THEN "acked" ELSE "no_ack")
      [] OTHER -> st

\* ---- the comparison
EquivInit == escn = NoScenario /\ mono = Fresh /\ modu = Fresh

\* a connection arrives at both listeners, with the same events to come
equiv_listener ==
    /\ escn.kind = "none"
    /\ \E in \in ListenerScenarios :
          /\ escn' = in
          /\ mono' = [Fresh EXCEPT !.pc = "accept_bi", !.gate = in.gate]
          /\ modu' = [Fresh EXCEPT !.pc = "accept_bi", !.gate = in.gate]
    /\ UNCHANGED <<pvars, cvars, rvars, hvars>>

\* both dialers have connected, with the same events to come
equiv_dialer ==
    /\ escn.kind = "none"
    /\ \E in \in DialerScenarios :
          /\ escn' = in
          /\ mono' = [Fresh EXCEPT !.pc = "open_bi", !.gate = in.gate]
          /\ modu' = [Fresh EXCEPT !.pc = "open_bi", !.gate = in.gate]
    /\ UNCHANGED <<pvars, cvars, rvars, hvars>>

main_listener_step ==
    /\ escn.kind = "listener"
    /\ mono.pc # "done"
    /\ mono' = main_handle_incoming_call(mono, escn)
    /\ UNCHANGED <<escn, modu, pvars, cvars, rvars, hvars>>

call_listener_step ==
    /\ escn.kind = "listener"
    /\ modu.pc # "done"
    /\ modu' = handle_incoming_call(modu, escn)
    /\ UNCHANGED <<escn, mono, pvars, cvars, rvars, hvars>>

main_dialer_step ==
    /\ escn.kind = "dialer"
    /\ mono.pc # "done"
    /\ mono' = main_peer_mode(mono, escn)
    /\ UNCHANGED <<escn, modu, pvars, cvars, rvars, hvars>>

modes_dialer_step ==
    /\ escn.kind = "dialer"
    /\ modu.pc # "done"
    /\ modu' = peer_mode(modu, escn)
    /\ UNCHANGED <<escn, mono, pvars, cvars, rvars, hvars>>

EquivNext ==
    \/ equiv_listener
    \/ equiv_dialer
    \/ main_listener_step
    \/ call_listener_step
    \/ main_dialer_step
    \/ modes_dialer_step

\* --------------------------------------------------------------- the system
ListenerStep(s) ==
    \/ accept(s)
    \/ accept_bi(s)
    \/ read_invite(s)
    \/ acquire(s)
    \/ reject_busy(s)
    \/ play_ringtone_async(s)
    \/ wait_ready(s)
    \/ race_audio_task(s)
    \/ race_peer_hangup_monitor(s)
    \/ write_hangup_ack(s)
    \/ race_ctrl_c(s)
    \/ cleanup(s)
    \/ release(s)

AudioStep(s) == audio_setup(s) \/ audio_loop(s)

DialerStep(s) ==
    \/ peer_connect(s)
    \/ peer_write_invite(s)
    \/ peer_ctrl_c(s)
    \/ peer_hangup_rx(s)
    \/ peer_timeout(s)
    \/ send_hangup_to_caller(s)
    \/ peer_await_ack(s)

Init ==
    /\ ProtocolInit /\ CodecInit /\ RingtoneInit
    /\ lhangup = [s \in Sessions |-> FALSE]
    /\ EquivInit

ProtocolNext ==
    \E s \in Sessions :
        \/ ListenerStep(s)
        \/ AudioStep(s)
        \/ DialerStep(s)
        \/ hangup(s)
        \/ foreign_invite(s)
        \/ foreign_data(s)
        \/ ConnLost(s)

Next == ProtocolNext

\* the call protocol: listener, audio threads, dialers, transport
Spec == Init /\ [][Next]_vars

\* the codec alone
CodecSpec == Init /\ [][CodecNext]_vars

\* the calls between peer_mode dialers and the listener, with an operator
\* of the listener who calls hangup()
\* the sessions with dialers of this crate that hang up (Ctrl+C, hangup()),
\* time out or stay silent; a dialer that has returned has dropped its
\* stream and its connection, which the listener's read sees as a failure.
\* The listener's tasks are polled by the tokio runtime and its timers (the
\* bound on the wait for the audio thread, the 3600 s audio_task, the sleep
\* of the cleanup) fire: a listener session that can take a step
\* eventually takes one
LiveNext ==
    \E s \in Sessions :
        \/ ListenerStep(s)
        \/ AudioStep(s)
        \/ DialerStep(s)
        \/ hangup(s)

LiveSpec == Init /\ [][LiveNext]_vars /\ \A s \in Sessions : WF_vars(ListenerStep(s))

HangupNext ==
    \E s \in Sessions :
        \/ ListenerStep(s)
        \/ AudioStep(s)
        \/ DialerStep(s)
        \/ hangup(s)
        \/ listener_hangup(s)

HangupSpec == Init /\ [][HangupNext]_vars

\* the AudioManager and its thread alone
AudioSpec == Init /\ [][AudioNext]_vars

\* the ringtone loaders alone
RingtoneSpec == Init /\ [][RingtoneNext]_vars

\* one session of main.rs beside one of the modules, on the same events
EquivSpec == Init /\ [][EquivNext]_vars

\* ================================================================== claims
\* session s holds the gate: it is between its successful
\* try_acquire_call() and its release_call()
Holds(s) == acq[s] > rel[s]

\* the places of handle_incoming_call between the two
AdmittedPcs == {"play", "wait_ready", "race", "ack", "cleanup", "release"}

\* session s was turned away: its try_acquire_call() returned false
Rejected(s) == lpc[s] = "busy" \/ (Len(lwrote[s]) > 0 /\ lwrote[s][1][1] = "BUSY")

\* C1: whatever the number of listener sessions and the interleaving of
\* their steps, at most one session is between a successful
\* try_acquire_call() and its release_call(); the sessions there are
\* exactly those in the ringing/active part of handle_incoming_call.
C1_AtMostOneAdmitted ==
    /\ Cardinality({s \in Sessions : Holds(s)}) <= 1
    /\ \A s \in Sessions : Holds(s) <=> lpc[s] \in AdmittedPcs
    /\ (\E s \in Sessions : Holds(s)) => CALL_IN_PROGRESS

\* one session is racing while another one has read its invite and is
\* about to call try_acquire_call()
C1_Witness ==
    \E s, t \in Sessions : s # t /\ lpc[s] = "race" /\ Holds(s) /\ lpc[t] = "acquire"

\* C2: a session executes release_call() once if its try_acquire_call()
\* succeeded and never otherwise, on every exit path; once every session
\* has ended, releases equal acquires and the gate is free.
C2_ReleaseOncePerAcquire ==
    /\ \A s \in Sessions :
          /\ acq[s] <= 1
          /\ rel[s] <= acq[s]
          /\ lpc[s] = "done" => rel[s] = acq[s]
    /\ (\A s \in Sessions : lpc[s] = "done") => ~CALL_IN_PROGRESS

\* both sessions were admitted one after the other and have ended, one on
\* a ringtone load error and one on a lost connection; both released
C2_Witness ==
    \E s, t \in Sessions :
        /\ s # t
        /\ lpc[s] = "done" /\ lpc[t] = "done"
        /\ acq[s] = 1 /\ rel[s] = 1 /\ lres[s] = "err" /\ athr[s] = "none"
        /\ acq[t] = 1 /\ rel[t] = 1 /\ exitBranch[t] = "connection_lost"
        /\ ~CALL_IN_PROGRESS

\* C3: try_acquire_call() returns true iff the gate was free, and leaves it
\* occupied either way; release_call() leaves it free, so the next
\* try_acquire_call() returns true; of the sessions that called it on a
\* gate that was never released, exactly one got true.
C3_CompareAndSet ==
    /\ [][\A s \in Sessions :
            /\ (lpc[s] = "acquire" /\ lpc'[s] # "acquire") =>
                  /\ (lpc'[s] = "play") <=> ~CALL_IN_PROGRESS
                  /\ (lpc'[s] = "busy") <=> CALL_IN_PROGRESS
                  /\ acq'[s] = acq[s] + (IF CALL_IN_PROGRESS THEN 0 ELSE 1)
                  /\ CALL_IN_PROGRESS'
            /\ (lpc[s] = "release" /\ lpc'[s] # "release") => ~CALL_IN_PROGRESS'
         ]_vars
    /\ [](((\A s \in Sessions : rel[s] = 0)
            /\ (\E s \in Sessions : lpc[s] \in AdmittedPcs \cup {"busy"}))
          => Cardinality({s \in Sessions : acq[s] = 1}) = 1)

\* a session was admitted after another one had released the gate
C3_Witness ==
    \E s, t \in Sessions :
        s # t /\ rel[s] = 1 /\ lpc[s] = "done" /\ lpc[t] = "play" /\ acq[t] = 1

C5_RejectedLeavesGate ==
    /\ [][\A s \in Sessions :
            (lpc[s] = "busy" /\ lpc'[s] # "busy") =>
                /\ CALL_IN_PROGRESS' = CALL_IN_PROGRESS
                /\ acq' = acq /\ rel' = rel
                /\ \A t \in Sessions \ {s} :
                      /\ stop_flag'[t] = stop_flag[t] /\ athr'[t] = athr[t]
                      /\ ready'[t] = ready[t] /\ lpc'[t] = lpc[t]
                      /\ d2l'[t] = d2l[t] /\ l2d'[t] = l2d[t]
                      /\ lsend'[t] = lsend[t] /\ l2dFin'[t] = l2dFin[t]
                      /\ conn'[t] = conn[t]
         ]_vars
    /\ [](\A s \in Sessions : Rejected(s) => rel[s] = 0)

\* a rejected session has ended and the gate is still occupied by the
\* session that holds it, whose ringtone is playing
C5_Witness ==
    \E s, t \in Sessions :
        /\ s # t
        /\ Rejected(s) /\ lpc[s] = "done"
        /\ Holds(t) /\ CALL_IN_PROGRESS /\ athr[t] = "loop" /\ ~stop_flag[t]


\* the dialer of session s has called write_all(b"HANGUP")
HangupWritten(s) == \E i \in 1..Len(dwrote[s]) : dwrote[s][i][1] = "HANGUP"

\* the listener's write_all(b"HANGUP_ACK") calls of session s
AckWrites(s) == {i \in 1..Len(lwrote[s]) : lwrote[s][i][1] = "HANGUP_ACK"}

\* C6 as stated, for a Hangup written on the dialer's interrupt path: the
\* dialer wrote Hangup while the admitted listener was in its race, so the
\* listener requested the stop, wrote HangupAck, ended and released, and
\* the dialer ended through the acknowledged path.
C6_Original ==
    \A s \in Sessions :
        (hupInRace[s] /\ dres[s] # "local_hangup"
           /\ lpc[s] = "done" /\ dpc[s] = "done") =>
            /\ stop_flag[s]
            /\ \E i \in AckWrites(s) : lwrote[s][i][2]
            /\ rel[s] = 1
            /\ dres[s] = "acked"

\* C6 amended: if the peer-hangup branch wins the listener's race (it reads
\* the HANGUP marker before a local Ctrl+C, the audio_task timer or a
\* connection failure ends the race), the listener requests the stop, then
\* calls write_all(b"HANGUP_ACK") once, ends and releases the gate; if that
\* write succeeded and the connection has not failed, a dialer that wrote
\* Hangup on interrupt ends through the acknowledged path; the dialer is
\* acknowledged only by a HANGUP_ACK the listener wrote, and after its
\* Hangup it never ends through the 30 s timeout.
C6_Amended ==
    \A s \in Sessions :
        /\ exitBranch[s] = "peer_hangup" =>
              /\ stop_flag[s] /\ acq[s] = 1
              /\ lpc[s] \in {"ack", "cleanup", "release", "done"}
              /\ Cardinality(AckWrites(s)) = (IF lpc[s] = "ack" THEN 0 ELSE 1)
              /\ lpc[s] = "done" => rel[s] = 1
        /\ (hupInRace[s] /\ dres[s] # "local_hangup" /\ dpc[s] = "done"
              /\ exitBranch[s] = "peer_hangup" /\ conn[s] # "lost"
              /\ \E i \in AckWrites(s) : lwrote[s][i][2])
           => dres[s] = "acked"
        /\ dres[s] = "acked" =>
              /\ exitBranch[s] = "peer_hangup"
              /\ \E i \in AckWrites(s) : lwrote[s][i][2]
        /\ HangupWritten(s) => dres[s] # "timeout"

\* the dialer hung up on interrupt during the race, the listener stopped
\* its sink, acknowledged, ended and released, the dialer was acknowledged
C6_Witness ==
    \E s \in Sessions :
        /\ hupInRace[s] /\ dres[s] = "acked" /\ dpc[s] = "done"
        /\ exitBranch[s] = "peer_hangup" /\ stop_flag[s] /\ athr[s] = "stopped"
        /\ lpc[s] = "done" /\ rel[s] = 1 /\ ~CALL_IN_PROGRESS

\* C7 as stated, even allowing a local Ctrl+C or a connection failure to
\* end the race first: once the sink has finished naturally and the dialer
\* has written no Hangup, the race ends through the media-finished branch
\* (result = audio_task).
C7_Original ==
    [][\A s \in Sessions :
          (lpc[s] = "race" /\ athr[s] = "finished" /\ ~HangupWritten(s)
             /\ conn[s] # "lost" /\ lpc'[s] # "race")
          => exitBranch'[s] \in {"audio_task", "ctrl_c"}
      ]_vars

\* C8 as stated: the dialer's wait for HangupAck is bounded, so whenever it
\* waits it can end the wait by itself or on what has arrived (an answer,
\* the end of the stream, a failure).
C8_Original ==
    \A s \in Sessions : dpc[s] = "await_ack" => ENABLED peer_await_ack(s)

\* the bytes the items of queue q have on the stream
RECURSIVE QueueBytes(_)
QueueBytes(q) == IF q = <<>> THEN 0 ELSE Head(q).bytes + QueueBytes(Tail(q))

\* C9: a message written by send is read back by recv as the same variant
\* with the same fields, recv taking exactly the bytes send wrote (so the
\* unread bytes stay aligned on the messages still in flight); send writes
\* one discriminator byte, distinct per variant, and VoiceData four more,
\* its size in little-endian order.
C9_RoundTrip ==
    /\ cexpect.kind = "msg" =>
          /\ cres.ok
          /\ cres.msg = cexpect.msg
          /\ cres.taken = cexpect.bytes
          /\ cres.taken = Len(send(cexpect.msg))
    /\ ~cfin => Len(cwire) = QueueBytes(cqueue)
    /\ \A m \in CallMessages :
          /\ Len(send(m)) = (IF m.tag = "VoiceData" THEN 5 ELSE 1)
          /\ send(m)[1] = Discriminator(m)
          /\ recv(send(m), FALSE) = [ok |-> TRUE, msg |-> m, taken |-> Len(send(m))]
          /\ \A n \in CallMessages : m.tag # n.tag => send(m)[1] # send(n)[1]
    /\ send([tag |-> "VoiceData", size |-> [hi |-> 772, lo |-> 258]]) = <<5, 2, 1, 4, 3>>
    /\ send([tag |-> "VoiceData", size |-> U32_MAX]) = <<5, 255, 255, 255, 255>>

\* recv has read back a VoiceData whose size bytes differ, with another
\* message still unread behind it
C9_Witness ==
    /\ cexpect.kind = "msg"
    /\ cexpect.msg = [tag |-> "VoiceData", size |-> [hi |-> 772, lo |-> 258]]
    /\ cres.ok /\ cres.msg.size = [hi |-> 772, lo |-> 258] /\ cres.taken = 5
    /\ Len(cqueue) > 0

\* C10: recv on a first byte that is no discriminator (any of 6..=255)
\* fails with "Unknown message type" naming that byte, having taken that
\* one byte and produced no message; on a stream that ends before a whole
\* message it fails in read_exact.
C10_UnknownDiscriminator ==
    /\ cexpect.kind = "unknown" =>
          /\ ~cres.ok
          /\ cres.error = "Unknown message type"
          /\ cres.byte = cexpect.byte
          /\ cres.taken = 1
    /\ cexpect.kind \in {"cut", "end"} =>
          /\ ~cres.ok
          /\ cres.error = "read_exact"
    /\ \A b \in 6..255 :
          recv(<<b, 1, 0, 0, 0>>, FALSE) =
              [ok |-> FALSE, error |-> "Unknown message type", byte |-> b, taken |-> 1]
    /\ \A b \in 0..5 : recv(<<b, 1, 0, 0, 0>>, FALSE).ok

\* recv has failed on the byte 255, bytes written after it still unread
C10_Witness ==
    /\ cexpect.kind = "unknown" /\ cexpect.byte = 255
    /\ ~cres.ok /\ cres.error = "Unknown message type" /\ cres.byte = 255
    /\ Len(cwire) > 0

\* the last Ringtone::load and the last load of play_ringtone_async
Loads == {r \in {rload, rplay} : r.called}

\* C11: a load by a name that has no matching asset succeeds with the
\* content of the fallback asset lost_woods when that can be read, and is a
\* load error when the fallback is missing too; Ringtone::load and
\* play_ringtone_async agree.
C11_FallbackWhenMissing ==
    /\ \A r \in Loads :
          ~PathExists(r.fs, r.name) =>
              /\ ReadOk(r.fs, Fallback) => (r.res.ok /\ r.res.data = r.fs[Fallback])
              /\ ~PathExists(r.fs, Fallback) => ~r.res.ok
    /\ (rload.called /\ rload.res.ok) => rload.res.name = rload.name
    /\ \A fs \in [RingtoneNames -> FileStates], n \in RingtoneNames :
          /\ Ringtone_load(fs, n).ok = play_file_data(fs, n).ok
          /\ Ringtone_load(fs, n).ok =>
                Ringtone_load(fs, n).data = play_file_data(fs, n).data

\* both loaders were asked for a ringtone that is not there and gave the
\* bytes of the fallback, and one of them an error once the fallback was
\* gone too
C11_Witness ==
    /\ rload.called /\ rload.name = "classic" /\ rload.fs["classic"] = "missing"
    /\ rload.res.ok /\ rload.res.data = rload.fs[Fallback]
    /\ rplay.called /\ rplay.name = "classic" /\ rplay.fs["classic"] = "missing"
    /\ rplay.fs[Fallback] = "missing" /\ ~rplay.res.ok

\* C12 as stated: a load fails only if neither the requested asset nor the
\* fallback can be read; whenever the requested asset cannot be read
\* (missing, or there but its read fails) and the fallback can, the load
\* succeeds with the fallback.
C12_Original ==
    \A r \in Loads :
        /\ ~r.res.ok => (~ReadOk(r.fs, r.name) /\ ~ReadOk(r.fs, Fallback))
        /\ (~ReadOk(r.fs, r.name) /\ ReadOk(r.fs, Fallback)) =>
              (r.res.ok /\ r.res.data = r.fs[Fallback])

\* the audio thread of session s has created its sink and appended the
\* ringtone to it
SinkStarted(s) == athr[s] \in {"loop", "finished", "stopped"}

\* the dialer's invite of session s was written and has been read
InviteRead(s) ==
    /\ Len(dwrote[s]) > 0 /\ dwrote[s][1] = <<"INCOMING_CALL", TRUE>>
    /\ lpc[s] \notin {"idle", "accept_bi", "read_invite"}

\* C13 as stated: the listener session that read the invite with the gate
\* free holds the gate and has started its sink when it is in the
\* termination race.
C13_Original ==
    \A s \in Sessions :
        lpc[s] = "race" => (Holds(s) /\ CALL_IN_PROGRESS /\ SinkStarted(s))

\* C13 amended: a session that reads the invite with the gate free acquires
\* the gate (occupied becomes true) and goes on to play_ringtone_async; it
\* is in the ready wait or in the race only with the invite read, the gate
\* held and the audio thread spawned; its sink has been started when the
\* race begins if readiness was confirmed, and need not have been when the
\* ready channel was closed by a failed audio thread or the 5 s ran out.
C13_Amended ==
    /\ [][\A s \in Sessions :
            (lpc[s] = "acquire" /\ ~CALL_IN_PROGRESS /\ lpc'[s] # "acquire") =>
                (lpc'[s] = "play" /\ CALL_IN_PROGRESS' /\ acq'[s] = 1)
         ]_vars
    /\ [](\A s \in Sessions :
            /\ lpc[s] \in {"play", "wait_ready", "race", "ack"} =>
                  (InviteRead(s) /\ Holds(s) /\ CALL_IN_PROGRESS)
            /\ lpc[s] \in {"wait_ready", "race", "ack"} =>
                  (athr[s] # "none" /\ ready[s] # "none")
            /\ (lpc[s] \in {"race", "ack"} /\ ready[s] = "sent") => SinkStarted(s)
            /\ athr[s] # "none" => (acq[s] = 1 /\ lpc[s] \notin {"idle", "accept_bi",
                                        "read_invite", "acquire", "busy", "play"})
            /\ (athr[s] = "failed" <=> ready[s] = "closed")
            /\ ready[s] = "sent" => SinkStarted(s))

\* the only session of an idle listener is in the race, the gate held and
\* its sink playing
C13_Witness ==
    \E s \in Sessions :
        /\ lpc[s] = "race" /\ Holds(s) /\ CALL_IN_PROGRESS
        /\ ready[s] = "sent" /\ athr[s] = "loop"
        /\ \A o \in Sessions \ {s} : lpc[o] = "idle" /\ acq[o] = 0

\* session s has not got past the read of the invite
BeforeInvite(s) == lpc[s] \in {"idle", "accept_bi", "read_invite"}

\* what a listener session has done to the gate, the stream and the
\* audio device
SideEffects(s) == <<acq[s], rel[s], lwrote[s], l2d[s], athr[s], ready[s], stop_flag[s]>>

\* C14: a session whose accept_bi() or whose read of the 13-byte invite
\* fails (connection lost, stream ended short) ends with the error and
\* without side effects: the failing step leaves the gate as it is, the
\* session has not acquired or released, has written nothing and has
\* started no audio thread or sink, and nothing happens in it afterwards.
C14_EarlyFailureNoSideEffects ==
    /\ [][\A s \in Sessions :
            /\ (BeforeInvite(s) /\ lpc'[s] = "done" /\ lres'[s] = "err") =>
                  /\ CALL_IN_PROGRESS' = CALL_IN_PROGRESS
                  /\ SideEffects(s)' = SideEffects(s)
                  /\ \A o \in Sessions \ {s} :
                        lpc'[o] = lpc[o] /\ SideEffects(o)' = SideEffects(o)
            /\ lpc[s] = "done" =>
                  (lpc'[s] = "done" /\ lres'[s] = lres[s]
                     /\ <<acq[s], rel[s], lwrote[s]>>' = <<acq[s], rel[s], lwrote[s]>>)
         ]_vars
    /\ [](\A s \in Sessions :
            BeforeInvite(s) =>
                SideEffects(s) = <<0, 0, <<>>, <<>>, "none", "none", FALSE>>)

\* the read of the invite failed in one session while another held the
\* gate: the first ended with the error, untouched, the gate still held
C14_Witness ==
    \E s \in Sessions :
        /\ lpc[s] = "done" /\ lres[s] = "err" /\ conn[s] = "lost"
        /\ SideEffects(s) = <<0, 0, <<>>, <<>>, "none", "none", FALSE>>
        /\ Len(dwrote[s]) > 0 /\ dwrote[s][1][2]
        /\ CALL_IN_PROGRESS
        /\ \E o \in Sessions \ {s} : Holds(o)

\* C15: an admitted session enters the termination race only from the
\* ready wait, reads nothing from the stream and resolves no race branch
\* before that, leaves the wait only into the race, and can always leave
\* it: on readiness confirmed, on the ready channel closed by a failed
\* audio thread, or on the 5 s bound.
C15_RaceAfterReadyWait ==
    /\ [][\A s \in Sessions :
            /\ (lpc'[s] = "race" /\ lpc[s] # "race") => lpc[s] = "wait_ready"
            /\ (lpc[s] = "wait_ready" /\ lpc'[s] # "wait_ready") => lpc'[s] = "race"
            /\ lpc[s] \in {"play", "wait_ready"} =>
                  /\ Len(d2l'[s]) >= Len(d2l[s])
                  /\ exitBranch'[s] = "none"
                  /\ lwrote'[s] = lwrote[s]
         ]_vars
    /\ [](\A s \in Sessions : lpc[s] = "wait_ready" => ENABLED wait_ready(s))

\* one session went through the race after its audio thread had failed
\* and closed the ready channel, and another is in the race after the 5 s
\* ran out with its audio thread still setting up
C15_Witness ==
    \E s, o \in Sessions :
        /\ lpc[s] = "race" /\ ready[s] = "pending" /\ athr[s] = "setup"
        /\ lpc[o] = "done" /\ ready[o] = "closed" /\ athr[o] = "failed"
        /\ exitBranch[o] # "none"

\* C16: a listener session that has started its audio thread and has not
\* ended, or that is in the ready wait or the race, is the one session
\* holding the gate, and the gate is occupied; no step of a dialer session
\* changes the gate or the acquire and release counts.
C16_RingingHoldsGate ==
    /\ [](\A s \in Sessions :
            (lpc[s] \in {"wait_ready", "race", "ack"}
               \/ (athr[s] # "none" /\ lpc[s] # "done")) =>
                /\ Holds(s) /\ acq[s] = 1 /\ rel[s] = 0
                /\ CALL_IN_PROGRESS
                /\ \A o \in Sessions \ {s} : ~Holds(o))
    /\ [][\A s \in Sessions :
            <<dpc[s], dres[s], dwrote[s]>>' # <<dpc[s], dres[s], dwrote[s]>> =>
                <<CALL_IN_PROGRESS, acq, rel>>' = <<CALL_IN_PROGRESS, acq, rel>>
         ]_vars

\* a dialer has ended by itself while its listener session is still in the
\* race with the sink playing and the gate held
C16_Witness ==
    \E s \in Sessions :
        /\ lpc[s] = "race" /\ athr[s] = "loop" /\ Holds(s) /\ CALL_IN_PROGRESS
        /\ dpc[s] = "done" /\ dres[s] \in {"timeout", "local_hangup"}

\* C17 as stated: a dialer that wrote Hangup, on a local hangup() as on an
\* interrupt, has then waited for HangupAck: it ended through the outcome
\* of that wait (acknowledged or not).
C17_Original ==
    \A s \in Sessions :
        (dpc[s] = "done"
           /\ \E i \in 1..Len(dwrote[s]) : dwrote[s][i] = <<"HANGUP", TRUE>>)
        => dres[s] \in {"acked", "no_ack"}

\* C18 as stated: once the listener session has ended on an open
\* connection (it rejected the call with BUSY or its race is over), the
\* dialer's race ends on that, through something else than its local
\* interrupt, its local hangup or its 30 s timeout.
C18_Original ==
    [][\A s \in Sessions :
          (dpc[s] = "race" /\ lpc[s] = "done" /\ l2dFin[s] /\ conn[s] = "open"
             /\ (lwrote[s] = <<(<<"BUSY", TRUE>>)>> \/ exitBranch[s] # "none")
             /\ dpc'[s] # "race")
          => /\ dpc'[s] \notin {"ctrl_c_send", "hangup_rx_send"}
             /\ dres'[s] # "timeout"
      ]_vars

\* C19: a dialer in its race can always end by the 30 s timeout; it leaves
\* the race only by the interrupt, by the local hangup or by that timeout,
\* whatever the listener and the connection do; having ended by the
\* timeout it has written the invite and nothing else, no Hangup.
C19_TimeoutOnlySelfEnd ==
    /\ [](\A s \in Sessions :
            /\ dpc[s] = "race" => ENABLED peer_timeout(s)
            /\ dres[s] = "timeout" =>
                  /\ dpc[s] = "done"
                  /\ dwrote[s] = <<(<<"INCOMING_CALL", TRUE>>)>>
                  /\ ~HangupWritten(s) /\ ~hupInRace[s])
    /\ [][\A s \in Sessions :
            (dpc[s] = "race" /\ dpc'[s] # "race") =>
                \/ dpc'[s] = "ctrl_c_send"
                \/ dpc'[s] = "hangup_rx_send" /\ hsig[s]
                \/ dpc'[s] = "done" /\ dres'[s] = "timeout" /\ dwrote'[s] = dwrote[s]
         ]_vars

\* a dialer stayed in its race after the connection was lost and ended by
\* the timeout, the invite its only write
C19_Witness ==
    \E s \in Sessions :
        /\ dpc[s] = "done" /\ dres[s] = "timeout" /\ conn[s] = "lost"
        /\ dwrote[s] = <<(<<"INCOMING_CALL", TRUE>>)>>
        /\ d2lFin[s]

\* C20 as stated, the drop(send) after the listener's race counted as an
\* explicit close: every ended session that had a send half has finished
\* or closed it explicitly.
C20_Original ==
    \A s \in Sessions :
        /\ (lpc[s] = "done" /\ lsend[s] # "none") =>
              \/ lsend[s] = "finished"
              \/ lsend[s] = "dropped" /\ exitBranch[s] # "none"
        /\ (dpc[s] = "done" /\ dsend(s) # "none") => dsend(s) = "finished"

\* session s has ended its race on a failed read: connection lost, or the
\* stream ended before 6 bytes
LostInRace(s) == exitBranch[s] = "connection_lost"

\* C21: a session whose read fails during the race (connection or stream
\* failure) ends like on a hangup without acknowledgment: it writes
\* nothing, ends with Ok, releases the gate, never blocks on the way, and
\* with no other session holding it the gate is then free for the next
\* invite.
C21_TransportErrorImplicitHangup ==
    \A s \in Sessions :
        LostInRace(s) =>
            /\ lwrote[s] = <<>> /\ l2d[s] = <<>>
            /\ lpc[s] \in {"cleanup", "release", "done"}
            /\ lpc[s] = "cleanup" => ENABLED cleanup(s)
            /\ lpc[s] = "release" => ENABLED release(s)
            /\ lpc[s] \in {"release", "done"} => lres[s] = "ok"
            /\ lpc[s] = "done" =>
                  /\ acq[s] = 1 /\ rel[s] = 1
                  /\ (\A o \in Sessions \ {s} : ~Holds(o)) => ~CALL_IN_PROGRESS

\* a session lost its connection in the race and ended with Ok, and the
\* next invite has been admitted and is in its race
C21_Witness ==
    \E s, o \in Sessions :
        /\ LostInRace(s) /\ conn[s] = "lost" /\ lpc[s] = "done" /\ lres[s] = "ok"
        /\ rel[s] = 1
        /\ lpc[o] = "race" /\ Holds(o) /\ CALL_IN_PROGRESS

\* C22: stop() is idempotent and monotonic: it sets the stop request
\* whatever it was, a second stop() gives the same, a set request is never
\* cleared by any step (is_stopped() stays true), a stop() on a set request
\* changes nothing at all, and a stop() after the playback has ended
\* changes the request only: the thread stays ended, the ready channel and
\* the other managers stay as they are.
C22_StopIdempotent ==
    /\ \A f \in BOOLEAN : stop(f) = TRUE /\ stop(stop(f)) = stop(f) /\ is_stopped(stop(f))
    /\ [][\A s \in Sessions :
            /\ is_stopped(stop_flag[s]) => is_stopped(stop_flag'[s])
            /\ (audio_stop(s) /\ stop_flag[s]) => UNCHANGED vars
            /\ (audio_stop(s) /\ athr[s] \in {"finished", "stopped", "failed"}) =>
                  /\ athr' = athr /\ ready' = ready
                  /\ \A o \in Sessions \ {s} : stop_flag'[o] = stop_flag[o]
            /\ athr[s] \in {"finished", "stopped", "failed"} => athr'[s] = athr[s]
         ]_vars

\* stop() was called on a manager whose playback had ended naturally, and
\* on another whose thread it stopped
C22_Witness ==
    \E s, o \in Sessions :
        /\ athr[s] = "finished" /\ is_stopped(stop_flag[s])
        /\ athr[o] = "stopped" /\ is_stopped(stop_flag[o])

\* C23: with the stop requested, one turn of the polling loop leaves the
\* loop, the sink stopped if it was not empty: a thread in the loop with
\* the request set can take that turn and any change of it is out of the
\* loop; this is so too when the request was set before the thread reached
\* the loop; a thread is stopped only on a request.
C23_StopWithinOnePoll ==
    /\ \A empty \in BOOLEAN :
          /\ poll(empty, TRUE) \in {"finished", "stopped"}
          /\ poll(FALSE, TRUE) = "stopped"
          /\ poll(FALSE, FALSE) = "loop"
    /\ [](\A s \in Sessions :
            /\ athr[s] = "stopped" => stop_flag[s]
            /\ (athr[s] = "loop" /\ stop_flag[s]) =>
                  ENABLED (audio_loop(s) /\ athr'[s] = "stopped"))
    /\ [][\A s \in Sessions :
            (athr[s] = "loop" /\ stop_flag[s] /\ audio_loop(s)) =>
                athr'[s] \in {"finished", "stopped"}
         ]_vars

\* one thread left its loop stopped, another is still setting up with the
\* stop already requested
C23_Witness ==
    \E s, o \in Sessions :
        /\ athr[s] = "stopped" /\ stop_flag[s]
        /\ athr[o] = "setup" /\ stop_flag[o]

\* C24 as stated: when hangup() has been called on the listener while a
\* session is in its termination race, the local-hangup branch of the race
\* can win (and stop the sink and end the session).
C24_Original ==
    \A s \in Sessions :
        (lhangup[s] /\ lpc[s] = "race") => ENABLED race_call_hangup_rx(s)

\* C25: in the peer-hangup branch the stop is requested before the write
\* of HangupAck, and a failed write is a soft error: with the write failed
\* as with the write done the session goes on to close its stream, ends
\* with Ok and releases the gate.
C25_AckFailureSoft ==
    /\ [](\A s \in Sessions :
            /\ lpc[s] = "ack" =>
                  (exitBranch[s] = "peer_hangup" /\ stop_flag[s] /\ AckWrites(s) = {})
            /\ AckWrites(s) # {} =>
                  /\ exitBranch[s] = "peer_hangup" /\ stop_flag[s]
                  /\ lpc[s] \in {"cleanup", "release", "done"}
                  /\ lpc[s] \in {"release", "done"} =>
                        (lres[s] = "ok" /\ lsend[s] = "dropped" /\ l2dFin[s])
                  /\ lpc[s] = "done" => (acq[s] = 1 /\ rel[s] = 1))
    /\ [][\A s \in Sessions :
            (lpc[s] = "ack" /\ lpc'[s] # "ack") =>
                /\ lpc'[s] = "cleanup"
                /\ Cardinality(AckWrites(s)') = 1
                /\ <<lres[s], acq[s], rel[s], CALL_IN_PROGRESS>>'
                      = <<lres[s], acq[s], rel[s], CALL_IN_PROGRESS>>
         ]_vars

\* the write of HangupAck failed and the session ended with Ok, its stream
\* closed and the gate released
C25_Witness ==
    \E s \in Sessions :
        /\ lwrote[s] = <<(<<"HANGUP_ACK", FALSE>>)>>
        /\ stop_flag[s] /\ lpc[s] = "done" /\ lres[s] = "ok"
        /\ lsend[s] = "dropped" /\ rel[s] = 1 /\ ~CALL_IN_PROGRESS

\* C26: on its stream the listener writes nothing before it has read the
\* whole invite; it makes at most one write in a session, of Busy or of
\* HangupAck; Busy only in a session that was not admitted; HangupAck only
\* after it has read a Hangup marker the dialer wrote, in the peer-hangup
\* branch; and a race is ended by exactly one branch, whose effects are the
\* only ones: the branch of a session never changes, a stop request or a
\* message on the call's hangup channel comes from the peer-hangup or the
\* Ctrl+C branch only.
C26_WireOrder ==
    /\ [](\A s \in Sessions :
            /\ lwrote[s] # <<>> => InviteRead(s)
            /\ Len(lwrote[s]) <= 1
            /\ \A i \in 1..Len(lwrote[s]) : lwrote[s][i][1] \in {"BUSY", "HANGUP_ACK"}
            /\ (lwrote[s] # <<>> /\ lwrote[s][1][1] = "BUSY") =>
                  (acq[s] = 0 /\ exitBranch[s] = "none" /\ athr[s] = "none")
            /\ AckWrites(s) # {} =>
                  /\ exitBranch[s] = "peer_hangup"
                  /\ \E i \in 1..Len(dwrote[s]) : dwrote[s][i] = <<"HANGUP", TRUE>>
                  /\ Len(d2l[s]) < HangupBufLen
            /\ lpc[s] \in {"race", "play", "wait_ready"} => exitBranch[s] = "none"
            /\ lpc[s] \in {"ack", "cleanup"} => exitBranch[s] # "none"
            /\ stop_flag[s] => exitBranch[s] \in {"peer_hangup", "ctrl_c"}
            /\ call_hangup[s] = (IF \/ exitBranch[s] = "ctrl_c"
                                    \/ exitBranch[s] = "peer_hangup" /\ lpc[s] # "ack"
                                 THEN 1 ELSE 0))
    /\ [][\A s \in Sessions :
            /\ exitBranch[s] # "none" => exitBranch'[s] = exitBranch[s]
            /\ exitBranch'[s] # exitBranch[s] => lpc[s] = "race"
         ]_vars

\* one session was turned away with Busy and another wrote HangupAck after
\* the Hangup of its dialer
C26_Witness ==
    \E s, o \in Sessions :
        /\ lwrote[s] = <<(<<"BUSY", TRUE>>)>>
        /\ lwrote[o] = <<(<<"HANGUP_ACK", TRUE>>)>> /\ exitBranch[o] = "peer_hangup"

\* C27 (as stated): once an admitted session has ended and released the
\* gate, its sink has finished or has been asked to stop, on every exit path
\* of the race: no such session has an audio thread that is still in its
\* playing loop with the stop flag unset.
C27_Original ==
    \A s \in Sessions :
        (lpc[s] = "done" /\ acq[s] = 1 /\ rel[s] = 1 /\ exitBranch[s] # "none") =>
            \/ athr[s] # "loop"
            \/ stop_flag[s]

\* what the listener keeps for session s
ListenerState(s) == <<lpc[s], lres[s], acq[s], rel[s], exitBranch[s], stop_flag[s],
                      athr[s], ready[s], call_hangup[s], lwrote[s], lsend[s]>>

\* C28: 6 bytes read in the race that are not the Hangup marker end this
\* session only: a dialer that sent other bytes is never acknowledged and
\* its session never takes the peer-hangup branch; the session that read
\* them writes nothing, requests no stop, goes on to the end of the function
\* with Ok and releases the gate, which is then free unless another session
\* took it; and the step that reads them changes neither the gate nor any
\* other session.
C28_UnexpectedDataSessionOnly ==
    /\ [](\A s \in Sessions :
            /\ dres[s] = "foreign" => (AckWrites(s) = {} /\ exitBranch[s] # "peer_hangup")
            /\ exitBranch[s] = "unexpected_data" =>
                  /\ lwrote[s] = <<>> /\ ~stop_flag[s] /\ call_hangup[s] = 0
                  /\ lpc[s] \in {"cleanup", "release", "done"}
                  /\ lpc[s] \in {"release", "done"} => lres[s] = "ok"
                  /\ lpc[s] = "done" =>
                        /\ acq[s] = 1 /\ rel[s] = 1
                        /\ (\A o \in Sessions : ~Holds(o)) => ~CALL_IN_PROGRESS)
    /\ [][\A s \in Sessions :
            (exitBranch[s] = "none" /\ exitBranch'[s] = "unexpected_data") =>
                /\ CALL_IN_PROGRESS' = CALL_IN_PROGRESS
                /\ \A o \in Sessions \ {s} : ListenerState(o)' = ListenerState(o)
         ]_vars

\* a session ended on unexpected bytes and released the gate, and another
\* session is admitted and ringing
C28_Witness ==
    \E s, o \in Sessions :
        /\ exitBranch[s] = "unexpected_data" /\ lpc[s] = "done" /\ rel[s] = 1
        /\ lpc[o] = "race" /\ Holds(o)

\* the dialer session s left its race through the Ctrl+C branch, the only
\* one that calls hangup() and keeps the signal unread
CtrlPath(s) ==
    /\ hsig[s]
    /\ dpc[s] \in {"ctrl_c_send", "await_ack", "done"}
    /\ dres[s] # "timeout"

\* the listener half of C29: the Ctrl+C branch of the listener's race
\* requests the stop and the session writes nothing, in that branch or later
ListenerInterrupt ==
    /\ [](\A s \in Sessions :
            exitBranch[s] = "ctrl_c" => (stop_flag[s] /\ lwrote[s] = <<>>))
    /\ [][\A s \in Sessions :
            (exitBranch[s] = "none" /\ exitBranch'[s] = "ctrl_c") =>
                (stop_flag'[s] /\ lwrote'[s] = <<>> /\ d2l'[s] = d2l[s] /\ l2d'[s] = l2d[s])
         ]_vars

\* C29 (as stated): on Ctrl+C the listener session requests the stop and
\* ends without writing; the dialer session writes Hangup and then awaits
\* HangupAck before it ends: its step after the interrupt puts Hangup on
\* the stream and leads to the wait for the acknowledgment, and it has ended
\* only through that wait.
C29_Original ==
    /\ ListenerInterrupt
    /\ [](\A s \in Sessions :
            (CtrlPath(s) /\ dpc[s] = "done") => dres[s] \in {"acked", "no_ack"})
    /\ [][\A s \in Sessions :
            (dpc[s] = "ctrl_c_send" /\ dpc'[s] # "ctrl_c_send") =>
                /\ dwrote'[s] = Append(dwrote[s], <<"HANGUP", TRUE>>)
                /\ dpc'[s] = "await_ack"
         ]_vars

\* C29 (amended): the listener half as stated; the dialer session attempts
\* one write of Hangup; when the write succeeds it awaits HangupAck and ends
\* only through that wait, acknowledged or not; when the write fails it ends
\* at once with the error and without awaiting.
C29_Amended ==
    /\ ListenerInterrupt
    /\ [](\A s \in Sessions :
            /\ dpc[s] = "await_ack" =>
                  (CtrlPath(s) /\ dwrote[s][Len(dwrote[s])] = <<"HANGUP", TRUE>>)
            /\ (CtrlPath(s) /\ dpc[s] = "done") =>
                  /\ dwrote[s][Len(dwrote[s])][1] = "HANGUP"
                  /\ dres[s] \in {"acked", "no_ack", "err"}
                  /\ dres[s] = "err" <=> ~dwrote[s][Len(dwrote[s])][2])
    /\ [][\A s \in Sessions :
            /\ (dpc[s] = "ctrl_c_send" /\ dpc'[s] # "ctrl_c_send") =>
                  \E ok \in BOOLEAN :
                      /\ dwrote'[s] = Append(dwrote[s], <<"HANGUP", ok>>)
                      /\ dpc'[s] = (IF ok THEN "await_ack" ELSE "done")
                      /\ ~ok => dres'[s] = "err"
            /\ (dpc[s] = "await_ack" /\ dpc'[s] # "await_ack") =>
                  (dpc'[s] = "done" /\ dres'[s] \in {"acked", "no_ack"})
         ]_vars

\* a listener session ended on its own Ctrl+C, stopped and silent, and a
\* dialer session ended on Ctrl+C with its Hangup acknowledged
C29_Witness ==
    \E s, o \in Sessions :
        /\ exitBranch[s] = "ctrl_c" /\ lpc[s] = "done" /\ stop_flag[s] /\ lwrote[s] = <<>>
        /\ CtrlPath(o) /\ dpc[o] = "done" /\ dres[o] = "acked"

\* the first thing the dialer of session s put on the stream was not the
\* invite marker
WrongInvite(s) == Len(dwrote[s]) > 0 /\ dwrote[s][1] = <<"OTHER", TRUE>>

\* C30: a session whose 13 bytes are not the invite marker ends with Ok
\* and without side effects: the step that reads them ends the session with
\* Ok and leaves the gate, the stream and the audio state as they were, and
\* such a session never acquires or releases the gate, never writes Busy or
\* HangupAck and never starts an audio thread or sink, also while another
\* session holds the gate.
C30_WrongInviteNoSideEffects ==
    /\ [](\A s \in Sessions :
            WrongInvite(s) =>
                /\ lpc[s] \in {"idle", "accept_bi", "read_invite", "done"}
                /\ SideEffects(s) = <<0, 0, <<>>, <<>>, "none", "none", FALSE>>
                /\ exitBranch[s] = "none"
                /\ (lpc[s] = "done" /\ d2l[s] = <<>>) => lres[s] = "ok")
    /\ [][\A s \in Sessions :
            (/\ lpc[s] = "read_invite"
             /\ Len(d2l[s]) >= InviteBufLen
             /\ Take(d2l[s], InviteBufLen) # INCOMING_CALL
             /\ d2l'[s] # d2l[s]) =>
                /\ lpc'[s] = "done" /\ lres'[s] = "ok"
                /\ SideEffects(s)' = SideEffects(s)
                /\ CALL_IN_PROGRESS' = CALL_IN_PROGRESS
         ]_vars

\* a session read 13 other bytes and ended with Ok while another session
\* held the gate
C30_Witness ==
    \E s, o \in Sessions :
        /\ WrongInvite(s) /\ lpc[s] = "done" /\ lres[s] = "ok" /\ d2l[s] = <<>>
        /\ lwrote[s] = <<>> /\ acq[s] = 0 /\ athr[s] = "none"
        /\ Holds(o) /\ CALL_IN_PROGRESS

\* session s is dialed by peer_mode of this crate
PeerModeDialer(s) == dpc[s] # "foreign_called" /\ dres[s] # "foreign"

\* the write_all calls of the dialer of session s that carried marker m
DialerWrites(s, m) == {i \in 1..Len(dwrote[s]) : dwrote[s][i][1] = m}

\* C31: a peer_mode session that has passed its invite write has written
\* the invite exactly once, as its first write, and the Hangup marker at
\* most once: only from its Ctrl+C or its hangup_rx branch, never from both
\* (the hangup() of the Ctrl+C branch leaves its message unread), and never
\* on the timeout path.
C31_DialerWritesOnce ==
    /\ [](\A s \in Sessions :
            PeerModeDialer(s) =>
                /\ dpc[s] \in {"start", "write_invite"} => dwrote[s] = <<>>
                /\ dwrote[s] # <<>> =>
                      (dwrote[s][1][1] = "INCOMING_CALL" /\ DialerWrites(s, "INCOMING_CALL") = {1})
                /\ dpc[s] \in {"race", "ctrl_c_send", "hangup_rx_send", "await_ack"} =>
                      dwrote[s][1] = <<"INCOMING_CALL", TRUE>>
                /\ Cardinality(DialerWrites(s, "HANGUP")) <= 1
                /\ Len(dwrote[s]) <= 2
                /\ dpc[s] \in {"race", "ctrl_c_send", "hangup_rx_send"} =>
                      DialerWrites(s, "HANGUP") = {}
                /\ dres[s] = "timeout" => DialerWrites(s, "HANGUP") = {}
                /\ (CtrlPath(s) /\ DialerWrites(s, "HANGUP") # {}) => dpc[s] \in {"await_ack", "done"})
    /\ [][\A s \in Sessions :
            /\ (dpc[s] \in {"ctrl_c_send", "await_ack"}) => dpc'[s] \notin {"race", "hangup_rx_send"}
            /\ (PeerModeDialer(s)' /\ dwrote'[s] # dwrote[s]) =>
                  \/ dpc[s] = "write_invite" /\ dwrote[s] = <<>>
                  \/ dpc[s] \in {"ctrl_c_send", "hangup_rx_send"} /\ Len(dwrote[s]) = 1
         ]_vars

\* one dialer ended on Ctrl+C with one Hangup written and the message of its
\* hangup() still unread, another ended on the timeout with the invite alone
C31_Witness ==
    \E s, o \in Sessions :
        /\ CtrlPath(s) /\ dpc[s] = "done" /\ hsig[s]
        /\ dwrote[s] = <<(<<"INCOMING_CALL", TRUE>>), (<<"HANGUP", TRUE>>)>>
        /\ dres[o] = "timeout" /\ dwrote[o] = <<(<<"INCOMING_CALL", TRUE>>)>>

\* C32: every listener session that holds the gate eventually has ended
\* and released it, whatever its dialer, the connection and its audio
\* thread do.
C32_AdmittedEventuallyReleases ==
    \A s \in Sessions : Holds(s) ~> (lpc[s] = "done" /\ rel[s] = 1 /\ ~Holds(s))

\* an admitted session ended and released the gate although its audio
\* thread failed to start and its dialer neither hung up nor disconnected
C32_Witness ==
    \E s \in Sessions :
        /\ lpc[s] = "done" /\ acq[s] = 1 /\ rel[s] = 1 /\ ~CALL_IN_PROGRESS
        /\ athr[s] = "failed"
        /\ dpc[s] = "race" /\ conn[s] = "open"

\* sequence a is the beginning of sequence b
Prefix(a, b) == Len(a) <= Len(b) /\ SubSeq(b, 1, Len(a)) = a

\* C33: run on the same events, the session of main.rs and the session of
\* call.rs, audio.rs and modes.rs make the same stores to the gate and to
\* the stop flag and the same operations on the stream in the same order:
\* at the same place they have the same gate, stop flag, branch, result and
\* trace, at different places the trace of one is the beginning of the
\* trace of the other, and both have ended with the same trace and result.
C33_MonolithEquivalent ==
    escn.kind # "none" =>
        /\ mono.pc = modu.pc => mono = modu
        /\ Prefix(mono.trace, modu.trace) \/ Prefix(modu.trace, mono.trace)
        /\ (mono.pc = "done" /\ modu.pc = "done") =>
              (mono.trace = modu.trace /\ mono.res = modu.res /\ mono.gate = modu.gate
               /\ mono.stop = modu.stop)

\* both listener sessions took the gate, requested the stop on the peer's
\* Hangup, wrote HangupAck, dropped the stream and released the gate
C33_Witness ==
    /\ escn.kind = "listener"
    /\ mono.pc = "done" /\ modu.pc = "done"
    /\ mono.trace = <<GateEvent(TRUE), StopEvent(TRUE), WriteEvent("HANGUP_ACK", TRUE),
                      SendEvent("dropped"), GateEvent(FALSE)>>
    /\ modu.trace = mono.trace

====
